---- MODULE Spec2Model ----
(***************************************************************************)
(* A model of the reMarkable notebook decoder of ReMarkSync                *)
(* (src/src/parser.ts): the header validation, the revision 3/5 layer /    *)
(* stroke / point loops and the revision 6 block scan with its tagged      *)
(* line-definition blocks.                                                 *)
(*                                                                         *)
(* Numbers.  TLC integers are 32 bits wide.  A value read with getUint32   *)
(* is carried as the two's-complement integer with the same 32 bits        *)
(* (v >= 2^31 is carried as v - 2^32); U32IsZero/U32Gt compare such values *)
(* as the unsigned numbers they stand for.  A float is carried as the bit  *)
(* pattern that was read, a normalised revision-6 sample as the pair       *)
(* <<numerator, denominator>>.                                             *)
(***************************************************************************)
EXTENDS Integers, Sequences, FiniteSets, TLC

VARIABLES
    buffer,      \* the ArrayBuffer: [len |-> byteLength, data |-> offset -> byte], 0 elsewhere
    cursor,      \* this.cursor
    version,     \* this.version
    pc,          \* the position of the decoder inside parse()
    result,      \* what parse() returned (kind = "none" while it runs)
    numLayers,   \* parseV5: numLayers
    layerIndex,  \* parseV5: layerIndex
    layers,      \* parseV5: layers
    numStrokes,  \* parseLayer: numStrokes
    strokeI,     \* parseLayer: i
    strokes,     \* parseLayer / parseV6: strokes
    blockStart,  \* parseV6: blockStart
    blockEnd,    \* parseV6: blockEnd
    acc,         \* parseV6Stroke: pen, color, thickness, points
    hist,        \* history: what the decoder has read and rejected so far
    origin,      \* how the input buffer was built (used to state the claims)
    vbuf,        \* readVaruint on its own: the buffer
    vstart,      \* readVaruint on its own: the cursor at the call
    vres,        \* readVaruint on its own: the value returned and the cursor after it
    cpc,             \* the position of the caller of the converter
    options,         \* ExcalidrawConverter.options
    layerGroupIds,   \* ExcalidrawConverter.layerGroupIds
    backgroundImage, \* ExcalidrawConverter.backgroundImage
    output,          \* what the last call of convert returned
    previous,        \* what the call of convert before the last returned
    converted,       \* history: layer and position of the stroke of every freehand element
    ids,             \* the number of values generateId has returned
    seeds,           \* the number of values generateSeed has returned
    now,             \* Date.now()
    bpc,         \* the position of a batch: in the loop of syncDocument or of triggerImport
    pages,       \* doc.pages / files: what decoding each one gives
    pageNum,     \* pageNum of syncDocument, i of triggerImport
    saved,       \* the pages (from 1) whose drawing was written to the vault
    reported,    \* the pages (from 1) named in a message given to the caller or the user
    syncPc,         \* the position of a caller of syncDocument
    syncDoc,        \* syncDocument: doc (lastModified and what decoding each page gives)
    forceReimport,  \* syncDocument: forceReimport
    sidecar,        \* the content of .sync-meta.json in the folder of the document
    existingMeta,   \* syncDocument: existingMeta
    docPageNum,     \* syncDocument: pageNum
    pageFiles,      \* the pages (from 1) whose file exists in the folder of the document
    written,        \* history: the pages (from 1) the running or last call has written
    returned,       \* what the last call of syncDocument returned
    syncedAt,       \* history: doc.lastModified at the last call that returned 'new' or 'updated'
    calls,          \* history: the number of calls of syncDocument
    autoSync,          \* this.settings.autoSync
    autoSyncInterval,  \* this.autoSyncInterval (0 for null)
    timers,            \* the interval timers that setInterval made and clearInterval has not cleared
    timerIds,          \* the number of timers setInterval has made
    lastCall,          \* history: the method of the plugin that ran last
    vault,       \* the paths of the folders and page files that exist in the vault
    runs,        \* the position of every invocation of runSync, its errors and passed pages
    syncedDocs,  \* the documents whose sidecar was written
    docCount,    \* the number of documents discoverDocuments finds
    pathPc,         \* the position of a caller of buildFolderPath
    metadataFiles,  \* what <folder>.metadata on the device holds for every folder
    currentParent,  \* buildFolderPath: currentParent (0 for the empty string)
    parts,          \* buildFolderPath: parts
    folderPath      \* what buildFolderPath returned, as the sequence of its parts

parserVars == <<buffer, cursor, version, pc, result, numLayers, layerIndex, layers,
                numStrokes, strokeI, strokes, blockStart, blockEnd, acc, hist, origin>>
varuintVars == <<vbuf, vstart, vres>>
converterVars == <<cpc, options, layerGroupIds, backgroundImage, output, previous,
                   converted, ids, seeds, now>>

\* the variables the decoder does not touch
batchVars == <<bpc, pages, pageNum, saved, reported>>
syncVars == <<syncPc, syncDoc, forceReimport, sidecar, existingMeta, docPageNum, pageFiles,
              written, returned, syncedAt, calls>>

\* the variables of the plugin around the decoder and the converter
timerVars == <<autoSync, autoSyncInterval, timers, timerIds, lastCall>>
raceVars == <<vault, runs, syncedDocs, docCount>>
pathVars == <<pathPc, metadataFiles, currentParent, parts, folderPath>>
pluginVars == <<syncVars, timerVars, raceVars, pathVars>>
coreVars == <<parserVars, varuintVars, converterVars, batchVars>>
outsideSync == <<coreVars, timerVars, raceVars, pathVars>>
outsideTimer == <<coreVars, syncVars, raceVars, pathVars>>
outsideRace == <<coreVars, syncVars, timerVars, pathVars>>
outsidePath == <<coreVars, syncVars, timerVars, raceVars>>
otherVars == <<varuintVars, converterVars, batchVars, pluginVars>>

vars == <<parserVars, otherVars>>

------------------------------------------------------------------------------
(* Bounds of the model *)

MaxLayers == 2      \* layers actually present in a generated revision 3/5 body
MaxStrokes == 2     \* strokes actually present in a generated layer
MaxPoints == 1      \* point records actually present in a generated stroke
MaxCut == 25        \* bytes cut off the end of a generated revision 3/5 buffer
MaxTail == 2        \* characters that follow "version=" in a generated header
MaxFields == 3      \* tagged fields in a generated line-definition block
MaxBlocks == 3      \* blocks in a generated revision 6 stream

------------------------------------------------------------------------------
(* Program constants *)

RMVersionV3 == 3
RMVersionV5 == 5
RMVersionV6 == 6
RMVersionUNKNOWN == -1

MinHeaderBytes == 33
HeaderTextBytes == 43
V6_HEADER_SIZE == 43
V6_POINT_SIZE == 14
V5_POINT_SIZE == 24
MaxLayerCount == 100
MaxStrokeCount == 100000
MaxPointCount == 100000
MaxBlockLength == 10000000

\* V6TagType
TagID == 15
TagLength4 == 12
TagByte8 == 8
TagByte4 == 4
TagByte1 == 1

\* V6BlockType.LINE_DEF = 0x5020200 and V6BlockType.LAYER_DEF = 0x1010100
LINE_DEF == 84017664
LAYER_DEF == 16843008

\* PenType.BALLPOINT, RMColor.BLACK
BALLPOINT == 0
BLACK == 0

\* "reMarkable .lines file, version=" as bytes, and the three magic strings
GeneralMagic ==
    <<114, 101, 77, 97, 114, 107, 97, 98, 108, 101, 32, 46, 108, 105, 110, 101,
      115, 32, 102, 105, 108, 101, 44, 32, 118, 101, 114, 115, 105, 111, 110, 61>>
HEADER_V3 == GeneralMagic \o <<51>>
HEADER_V5 == GeneralMagic \o <<53>>
HEADER_V6 == GeneralMagic \o <<54>>

\* "version="
VersionEq == <<118, 101, 114, 115, 105, 111, 110, 61>>

HEADER_SIZES(v) ==
    IF v = RMVersionV3 THEN 33 ELSE IF v = RMVersionV5 THEN 43
    ELSE IF v = RMVersionV6 THEN 43 ELSE 0

------------------------------------------------------------------------------
(* The buffer and the DataView read primitives *)

Min(a, b) == IF a < b THEN a ELSE b

ByteLength(buf) == buf.len

ByteAt(buf, i) == IF i \in DOMAIN buf.data THEN buf.data[i] ELSE 0

\* A DataView read of n bytes at offset c throws a RangeError outside the buffer
InBounds(buf, c, n) == c >= 0 /\ c <= ByteLength(buf) - n

\* little-endian 32 bits as a signed integer (DataView.getInt32(c, true))
Int32At(buf, c) ==
    LET b3 == ByteAt(buf, c + 3)
        hi == IF b3 >= 128 THEN b3 - 256 ELSE b3
    IN  ByteAt(buf, c) + 256 * ByteAt(buf, c + 1) + 65536 * ByteAt(buf, c + 2)
          + 16777216 * hi

\* DataView.getUint32(c, true), carried as the integer with the same 32 bits
Uint32At(buf, c) == Int32At(buf, c)

Uint16At(buf, c) == ByteAt(buf, c) + 256 * ByteAt(buf, c + 1)

\* DataView.getFloat32(c, true): the bit pattern of the float
Float32At(buf, c) == Int32At(buf, c)

\* DataView.getFloat64(c, true): the two halves of the bit pattern
Float64At(buf, c) == <<Int32At(buf, c), Int32At(buf, c + 4)>>

\* comparisons of a getUint32 value u with a number that is below 2^31
U32IsZero(u) == u = 0
U32Gt(u, x) == u < 0 \/ u > x

\* cursor + len for a getUint32 value len.  The cursor is a double and does
\* not wrap; every sum beyond CursorCeiling is carried as CursorCeiling, which
\* is beyond every buffer and every block end
CursorCeiling == 2000000000
AdvanceBy(c, len) ==
    IF len < 0 \/ c >= CursorCeiling \/ len > CursorCeiling - c
    THEN CursorCeiling ELSE c + len

------------------------------------------------------------------------------
(* 32-bit operators of readVaruint and of the tag split *)

Bit(n, i) == IF i = 31 THEN (IF n < 0 THEN 1 ELSE 0) ELSE (n \div (2 ^ i)) % 2

RECURSIVE SumBits(_, _)
SumBits(f, i) == IF i < 0 THEN 0 ELSE f[i] * (2 ^ i) + SumBits(f, i - 1)

\* the int32 whose bits are f[0..31]
FromBits(f) == SumBits(f, 30) + (IF f[31] = 1 THEN (-1073741824) * 2 ELSE 0)

\* a | b on int32
Or32(a, b) ==
    FromBits([i \in 0..31 |-> IF Bit(a, i) = 1 \/ Bit(b, i) = 1 THEN 1 ELSE 0])

\* a << s on int32: the shift count is taken modulo 32
Shl32(a, s) ==
    LET k == s % 32
    IN  FromBits([i \in 0..31 |-> IF i >= k THEN Bit(a, i - k) ELSE 0])

\* tag >> 4 and tag & 0xF
TagIndex(tag) == tag \div 16
TagType(tag) == tag % 16

------------------------------------------------------------------------------
(* Error messages: a message is a sequence of segments, a segment is a text  *)
(* of the template followed by the number interpolated after it             *)

Seg(text, n) == [text |-> text, hasArg |-> TRUE, arg |-> n]
SegText(text) == [text |-> text, hasArg |-> FALSE, arg |-> 0]

NoDocument == [version |-> RMVersionUNKNOWN, layers |-> <<>>]
NoError == [message |-> <<>>, hasOffset |-> FALSE, offset |-> 0, details |-> FALSE]

NoResult == [kind |-> "none", document |-> NoDocument, error |-> NoError]

\* { success: true, document: { version, layers } }
Success(v, ls) ==
    [kind |-> "success", document |-> [version |-> v, layers |-> ls], error |-> NoError]

\* { success: false, error: { message, offset } }
Failure(msg, off) ==
    [kind |-> "failure", document |-> NoDocument,
     error |-> [message |-> msg, hasOffset |-> TRUE, offset |-> off, details |-> FALSE]]

\* the catch block of parse: { message: "Parse error: ...", offset: this.cursor, details }
Caught(off) ==
    [kind |-> "failure", document |-> NoDocument,
     error |-> [message |-> <<SegText("Parse error")>>, hasOffset |-> TRUE,
                offset |-> off, details |-> TRUE]]

------------------------------------------------------------------------------
(* validateHeader *)

IsDigit(ch) == ch >= 48 /\ ch <= 57

\* new Uint8Array(this.buffer, 0, Math.min(43, byteLength))
HeaderBytes(buf) ==
    [i \in 1..Min(HeaderTextBytes, ByteLength(buf)) |-> ByteAt(buf, i - 1)]

\* TextDecoder("utf-8").decode: a leading byte order mark EF BB BF is dropped,
\* an ASCII byte is its character and a byte that is not part of a well-formed
\* sequence becomes U+FFFD (65533).  (The generated headers hold no
\* well-formed multi-byte sequence other than the byte order mark.)
Utf8Decode(bytes) ==
    LET hasBom == Len(bytes) >= 3 /\ bytes[1] = 239 /\ bytes[2] = 187 /\ bytes[3] = 191
        rest == IF hasBom THEN SubSeq(bytes, 4, Len(bytes)) ELSE bytes
    IN  [i \in 1..Len(rest) |-> IF rest[i] < 128 THEN rest[i] ELSE 65533]

\* String.prototype.startsWith
StartsWith(text, prefix) ==
    Len(text) >= Len(prefix) /\ SubSeq(text, 1, Len(prefix)) = prefix

\* the positions at which /version=(\d+)/ can match
MatchPositions(text) ==
    {i \in 1..Len(text) :
        /\ i + 8 <= Len(text)
        /\ SubSeq(text, i, i + 7) = VersionEq
        /\ IsDigit(text[i + 8])}

\* the end of the greedy run of digits that starts at position i
RECURSIVE DigitsEnd(_, _)
DigitsEnd(text, i) ==
    IF i + 1 <= Len(text) /\ IsDigit(text[i + 1]) THEN DigitsEnd(text, i + 1) ELSE i

\* parseInt(digits, 10) of text[from..to]
RECURSIVE ParseInt(_, _, _)
ParseInt(text, from, to) ==
    IF to < from THEN 0 ELSE ParseInt(text, from, to - 1) * 10 + (text[to] - 48)

\* headerText.match(/version=(\d+)/): the leftmost match, or no match
RegexVersion(text) ==
    IF MatchPositions(text) = {} THEN [matched |-> FALSE, num |-> 0]
    ELSE LET i == CHOOSE p \in MatchPositions(text) :
                     \A q \in MatchPositions(text) : p <= q
         IN  [matched |-> TRUE, num |-> ParseInt(text, i + 8, DigitsEnd(text, i + 8))]

HeaderInvalid(msg) == [valid |-> FALSE, version |-> RMVersionUNKNOWN, error |-> msg]
HeaderValid(v) == [valid |-> TRUE, version |-> v, error |-> <<>>]

validateHeader(buf) ==
    IF ByteLength(buf) < MinHeaderBytes
    THEN HeaderInvalid(<<Seg("File too small", ByteLength(buf))>>)
    ELSE LET headerText == Utf8Decode(HeaderBytes(buf))
         IN  IF StartsWith(headerText, HEADER_V6) THEN HeaderValid(RMVersionV6)
             ELSE IF StartsWith(headerText, HEADER_V5) THEN HeaderValid(RMVersionV5)
             ELSE IF StartsWith(headerText, HEADER_V3) THEN HeaderValid(RMVersionV3)
             ELSE IF StartsWith(headerText, GeneralMagic) /\ RegexVersion(headerText).matched
                  THEN HeaderInvalid(<<Seg("Unsupported version", RegexVersion(headerText).num)>>)
             ELSE HeaderInvalid(<<SegText("Invalid file format: missing reMarkable header magic string")>>)

------------------------------------------------------------------------------
(* Sequential reads.  Each result carries threw (a RangeError was raised) and *)
(* the cursor at that moment                                                 *)

\* n consecutive 32-bit reads (getInt32 / getFloat32 / getUint32) from c
ReadWords(buf, c, n) ==
    IF InBounds(buf, c, 4 * n)
    THEN [threw |-> FALSE, cursor |-> c + 4 * n,
          words |-> [k \in 1..n |-> Int32At(buf, c + 4 * (k - 1))]]
    ELSE [threw |-> TRUE,
          cursor |-> IF c >= 0 /\ c <= ByteLength(buf) - 4
                     THEN c + 4 * ((ByteLength(buf) - c) \div 4) ELSE c,
          words |-> <<>>]

\* readVaruint: the loop, from cursor c with the accumulated result and shift
RECURSIVE VaruintLoop(_, _, _, _)
VaruintLoop(buf, c, res, shift) ==
    IF c >= ByteLength(buf) THEN [value |-> res, cursor |-> c]
    ELSE LET byte == ByteAt(buf, c)
             r == Or32(res, Shl32(byte % 128, shift))
         IN  IF byte < 128 THEN [value |-> r, cursor |-> c + 1]
             ELSE VaruintLoop(buf, c + 1, r, shift + 7)

readVaruint(buf, c) == VaruintLoop(buf, c, 0, 0)

\* skipCrdtId: two varuints, the cursor after them
skipCrdtId(buf, c) == readVaruint(buf, readVaruint(buf, c).cursor).cursor

------------------------------------------------------------------------------
(* Revision 3 / 5 *)

StrokeHeaderSize(v) == IF v = RMVersionV3 THEN 20 ELSE 24

\* the point records of parseStroke: six floats each
V5Points(buf, c, n) ==
    [j \in 1..n |->
        LET p == c + V5_POINT_SIZE * (j - 1)
        IN  [x |-> Float32At(buf, p), y |-> Float32At(buf, p + 4),
             speed |-> Float32At(buf, p + 8), direction |-> Float32At(buf, p + 12),
             width |-> Float32At(buf, p + 16), pressure |-> Float32At(buf, p + 20)]]

StrokeFail(msg, c, read, n) ==
    [threw |-> FALSE, success |-> FALSE, error |-> msg, cursor |-> c,
     read |-> read, numPoints |-> n,
     stroke |-> [pen |-> 0, color |-> 0, width |-> 0, points |-> <<>>, layerIndex |-> 0]]
StrokeThrew(c) ==
    [threw |-> TRUE, success |-> FALSE, error |-> <<>>, cursor |-> c,
     read |-> FALSE, numPoints |-> 0,
     stroke |-> [pen |-> 0, color |-> 0, width |-> 0, points |-> <<>>, layerIndex |-> 0]]
StrokeOkFirstLayer(st, c) ==
    [threw |-> FALSE, success |-> TRUE, error |-> <<>>, cursor |-> c,
     read |-> TRUE, numPoints |-> Len(st.points), stroke |-> [st EXCEPT !.layerIndex = 0]]

StrokeOk(st, c) ==
    [threw |-> FALSE, success |-> TRUE, error |-> <<>>, cursor |-> c,
     read |-> TRUE, numPoints |-> Len(st.points), stroke |-> st]

\* parseStroke(layerIndex) at cursor c of a revision v buffer
parseStroke(buf, c, v, li) ==
    IF c + StrokeHeaderSize(v) > ByteLength(buf)
    THEN StrokeFail(<<SegText("Cannot read stroke header")>>, c, FALSE, 0)
    ELSE LET nHead == IF v = RMVersionV3 THEN 5 ELSE 6
             head == ReadWords(buf, c, nHead)
         IN  IF head.threw THEN StrokeThrew(head.cursor)
             ELSE LET pen == head.words[1]
                      color == head.words[2]
                      baseWidth == head.words[4]
                      numPoints == head.words[nHead]
                      c2 == head.cursor
                  IN  IF numPoints < 0 \/ numPoints > MaxPointCount
                      THEN StrokeFail(<<Seg("Invalid point count", numPoints)>>, c2, TRUE, numPoints)
                      ELSE IF c2 + numPoints * V5_POINT_SIZE > ByteLength(buf)
                      THEN StrokeFail(<<Seg("Not enough bytes for points", numPoints)>>, c2,
                                       TRUE, numPoints)
                      ELSE LET body == ReadWords(buf, c2, 6 * numPoints)
                           IN  IF body.threw THEN StrokeThrew(body.cursor)
                               ELSE StrokeOk([pen |-> pen, color |-> color,
                                              width |-> baseWidth,
                                              points |-> V5Points(buf, c2, numPoints),
                                              layerIndex |-> li], body.cursor)

------------------------------------------------------------------------------
(* Revision 6: one iteration of the tag loop of parseV6Stroke *)

\* Math.floor(pointsLen / V6_POINT_SIZE) of a getUint32 value; 2^32 = 14 * 306783378 + 4
NumPointsOf(pointsLen) ==
    IF pointsLen >= 0 THEN pointsLen \div V6_POINT_SIZE
    ELSE ((pointsLen + 4) \div V6_POINT_SIZE) + 306783378

\* one 14-byte point record at c
V6Point(buf, c) ==
    [x |-> Float32At(buf, c), y |-> Float32At(buf, c + 4),
     speed |-> <<Uint16At(buf, c + 8), 65535>>,
     width |-> <<Uint16At(buf, c + 10), 65535>>,
     direction |-> <<ByteAt(buf, c + 12) * 360, 255>>,
     pressure |-> <<ByteAt(buf, c + 13), 255>>]

\* for (i = 0; i < numPoints && cursor + V6_POINT_SIZE <= blockEnd; i++)
RECURSIVE PointsLoop(_, _, _, _, _, _)
PointsLoop(buf, c, bEnd, i, numPoints, pts) ==
    IF ~(i < numPoints /\ c + V6_POINT_SIZE <= bEnd)
    THEN [threw |-> FALSE, cursor |-> c, points |-> pts]
    ELSE IF ~InBounds(buf, c, V6_POINT_SIZE)
    THEN [threw |-> TRUE, cursor |-> c, points |-> pts]
    ELSE PointsLoop(buf, c + V6_POINT_SIZE, bEnd, i + 1, numPoints,
                    Append(pts, V6Point(buf, c)))

TagOk(c, a) == [threw |-> FALSE, cursor |-> c, acc |-> a]
TagThrew(c, a) == [threw |-> TRUE, cursor |-> c, acc |-> a]

SkipUnknownByte8As4(buf, c, type, a) ==
    IF type = TagByte1 THEN TagOk(c + 1, a)
    ELSE IF type = TagByte4 \/ type = TagByte8 THEN TagOk(c + 4, a)
    ELSE IF type = TagLength4
         THEN IF InBounds(buf, c, 4)
              THEN TagOk(AdvanceBy(c + 4, Uint32At(buf, c)), a)
              ELSE TagThrew(c, a)
    ELSE IF type = TagID THEN TagOk(skipCrdtId(buf, c), a)
    ELSE TagOk(c, a)

\* default: skip unknown tags
SkipUnknown(buf, c, type, a) ==
    IF type = TagByte1 THEN TagOk(c + 1, a)
    ELSE IF type = TagByte4 THEN TagOk(c + 4, a)
    ELSE IF type = TagByte8 THEN TagOk(c + 8, a)
    ELSE IF type = TagLength4
         THEN IF InBounds(buf, c, 4)
              THEN TagOk(AdvanceBy(c + 4, Uint32At(buf, c)), a)
              ELSE TagThrew(c, a)
    ELSE IF type = TagID THEN TagOk(skipCrdtId(buf, c), a)
    ELSE TagOk(c, a)

\* the body of while (this.cursor < blockEnd) in parseV6Stroke
TagStep(buf, c0, bEnd, a) ==
    LET tagRead == readVaruint(buf, c0)
        tag == tagRead.value
        c == tagRead.cursor
        index == TagIndex(tag)
        type == TagType(tag)
    IN  IF index = 1 \/ index = 2
        THEN IF type = TagByte4
             THEN IF InBounds(buf, c, 4)
                  THEN TagOk(c + 4, IF index = 1
                                    THEN [a EXCEPT !.pen = Uint32At(buf, c)]
                                    ELSE [a EXCEPT !.color = Uint32At(buf, c)])
                  ELSE TagThrew(c, a)
             ELSE IF type = TagID THEN TagOk(skipCrdtId(buf, c), a)
             ELSE TagOk(c, a)
        ELSE IF index = 3
        THEN IF type = TagByte8
             THEN IF InBounds(buf, c, 8)
                  THEN TagOk(c + 8, [a EXCEPT !.thickness = Float64At(buf, c)])
                  ELSE TagThrew(c, a)
             ELSE TagOk(c, a)
        ELSE IF index = 4
        THEN IF type = TagByte4
             THEN IF InBounds(buf, c, 4) THEN TagOk(c + 4, a) ELSE TagThrew(c, a)
             ELSE TagOk(c, a)
        ELSE IF index = 5
        THEN IF type = TagLength4
             THEN IF InBounds(buf, c, 4)
                  THEN LET pointsLen == Uint32At(buf, c)
                           loop == PointsLoop(buf, c + 4, bEnd, 0,
                                              NumPointsOf(pointsLen), a.points)
                       IN  IF loop.threw THEN TagThrew(loop.cursor, a)
                           ELSE TagOk(loop.cursor, [a EXCEPT !.points = loop.points])
                  ELSE TagThrew(c, a)
             ELSE TagOk(c, a)
        ELSE IF index = 6 \/ index = 7
        THEN IF type = TagID THEN TagOk(skipCrdtId(buf, c), a) ELSE TagOk(c, a)
        ELSE SkipUnknown(buf, c, type, a)

\* the locals of parseV6Stroke at its start
NewAcc == [pen |-> BALLPOINT, color |-> BLACK, thickness |-> <<0, 1072693248>>,
           points |-> <<>>]

\* the stroke returned by parseV6Stroke
V6StrokeOf(a) ==
    [pen |-> a.pen, color |-> a.color, width |-> a.thickness, points |-> a.points,
     layerIndex |-> 0]

\* parseV6Stroke(blockEnd) from cursor c, as one call: the tag loop and the catch
RECURSIVE TagLoop(_, _, _, _)
TagLoop(buf, c, bEnd, a) ==
    IF ~(c < bEnd) THEN [threw |-> FALSE, acc |-> a]
    ELSE LET r == TagStep(buf, c, bEnd, a)
         IN  IF r.threw THEN [threw |-> TRUE, acc |-> a]
             ELSE TagLoop(buf, r.cursor, bEnd, r.acc)

parseV6Stroke(buf, c, bEnd) ==
    LET run == TagLoop(buf, c, bEnd, NewAcc)
    IN  [success |-> ~run.threw, stroke |-> V6StrokeOf(run.acc)]

BlockRejectedNoCeiling(buf, c, length) ==
    \/ U32IsZero(length)
    \/ U32Gt(length, ByteLength(buf) - c)

\* the validation of a block in parseV6: c is the cursor after the two reads
BlockRejected(buf, c, length) ==
    \/ U32IsZero(length)
    \/ U32Gt(length, ByteLength(buf) - c)
    \/ U32Gt(length, MaxBlockLength)

------------------------------------------------------------------------------
(* Numbers of the converter.  A JavaScript number is carried as NaN, plus or *)
(* minus Infinity, or a finite value in units of 1/NumUnit (1/16000 = 2^-7 / *)
(* 125); a finite value that is not a multiple of the unit is rounded down   *)
(* to one.  The operators are defined for finite values below 2^17 in        *)
(* magnitude, which is the range of the generated inputs                     *)

NumUnit == 16000

Fin(v) == [k |-> "fin", v |-> v]
NaN == [k |-> "nan", v |-> 0]
PosInf == [k |-> "inf", v |-> 0]
NegInf == [k |-> "ninf", v |-> 0]
\* the number n / d
Ratio(n, d) == Fin((n * NumUnit) \div d)

Pow2(n) == 2 ^ n

\* the number a float32 bit pattern stands for (IEEE 754 binary32)
F32Value(bits) ==
    LET neg == bits < 0
        mag == IF neg THEN (bits + 1073741824) + 1073741824 ELSE bits
        e == mag \div 8388608
        m == mag % 8388608
        sig == 8388608 + m
        \* sig * 2^(e - 150) * 16000 = sig * 125 * 2^(e - 143)
        units == IF e = 0 \/ 143 - e > 30 THEN 0
                 ELSE IF e <= 143 THEN (sig * 125) \div Pow2(143 - e)
                 ELSE (sig * 125) * Pow2(e - 143)
    IN  IF e = 255 THEN (IF m # 0 THEN NaN ELSE IF neg THEN NegInf ELSE PosInf)
        ELSE Fin(IF neg THEN -units ELSE units)

\* the number a float64 bit pattern stands for (IEEE 754 binary64), given as
\* <<low word, high word>>; of the low word the upper 16 bits are counted
F64Value(w) ==
    LET lo == w[1]
        hi == w[2]
        neg == hi < 0
        mag == IF neg THEN (hi + 1073741824) + 1073741824 ELSE hi
        e == mag \div 1048576
        m == mag % 1048576
        sig == 1048576 + m
        loHi == (IF lo < 0 THEN (lo + 1073741824) + 1073741824 ELSE lo) \div 65536
                  + (IF lo < 0 THEN 32768 ELSE 0)
        \* sig * 2^(e - 1043) * 16000 = sig * 125 * 2^(e - 1036)
        units == IF e = 0 \/ 1036 - e > 30 THEN 0
                 ELSE IF e <= 1036
                 THEN (sig * 125) \div Pow2(1036 - e)
                        + (IF 1052 - e > 30 THEN 0 ELSE (loHi * 125) \div Pow2(1052 - e))
                 ELSE (sig * 125) * Pow2(e - 1036)
    IN  IF e = 2047
        THEN (IF m # 0 \/ lo # 0 THEN NaN ELSE IF neg THEN NegInf ELSE PosInf)
        ELSE Fin(IF neg THEN -units ELSE units)

\* a < b on numbers: false when either is NaN
NumLess(a, b) ==
    /\ a.k # "nan" /\ b.k # "nan"
    /\ \/ a.k = "ninf" /\ b.k # "ninf"
       \/ a.k = "fin" /\ b.k = "inf"
       \/ a.k = "fin" /\ b.k = "fin" /\ a.v < b.v

\* Math.min(a, b) and Math.max(a, b): NaN when either is NaN
MathMin2(a, b) ==
    IF a.k = "nan" \/ b.k = "nan" THEN NaN ELSE IF NumLess(b, a) THEN b ELSE a
MathMax2(a, b) ==
    IF a.k = "nan" \/ b.k = "nan" THEN NaN ELSE IF NumLess(a, b) THEN b ELSE a

\* Math.min(...xs) and Math.max(...xs)
RECURSIVE MathMin(_)
MathMin(xs) == IF xs = <<>> THEN PosInf ELSE MathMin2(Head(xs), MathMin(Tail(xs)))
RECURSIVE MathMax(_)
MathMax(xs) == IF xs = <<>> THEN NegInf ELSE MathMax2(Head(xs), MathMax(Tail(xs)))

\* a - b
NumSub(a, b) ==
    IF a.k = "nan" \/ b.k = "nan" THEN NaN
    ELSE IF a.k = "fin" /\ b.k = "fin" THEN Fin(a.v - b.v)
    ELSE IF a.k = b.k THEN NaN
    ELSE IF a.k = "inf" \/ b.k = "ninf" THEN PosInf
    ELSE NegInf

\* a * (p / q) for a positive factor p / q
NumTimes(a, f) == IF a.k = "fin" THEN Fin((a.v * f[1]) \div f[2]) ELSE a

------------------------------------------------------------------------------
(* Input buffers.  Every buffer is a possible file; origin records how it   *)
(* was put together                                                         *)

\* the four little-endian bytes of a 32-bit integer
LE32(n) == <<n % 256, (n \div 256) % 256, (n \div 65536) % 256, (n \div 16777216) % 256>>

RECURSIVE Flatten(_)
Flatten(ss) == IF ss = <<>> THEN <<>> ELSE Head(ss) \o Flatten(Tail(ss))

Repeat(b, n) == [i \in 1..n |-> b]

BufferOfBytes(bytes) ==
    [len |-> Len(bytes), data |-> [i \in 0..(Len(bytes) - 1) |-> bytes[i + 1]]]

SeqsUpTo(S, n) == UNION {[1..k -> S] : k \in 0..n}

\* the sequences of up to n elements whose first k are of S and whose others
\* are of T
SeqsThen(S, k, T, n) ==
    LET m == IF k <= n THEN k ELSE n
    IN  SeqsUpTo(S, m) \cup {a \o b : a \in [1..m -> S], b \in SeqsUpTo(T, n - m)}

NoOverride == [kind |-> "none", layer |-> 0, stroke |-> 0, val |-> 0]

Origin(family) ==
    [family |-> family, head |-> <<>>, ver |-> 0, doc |-> <<>>, pen |-> 0,
     ov |-> NoOverride, cut |-> 0, fields |-> <<>>, blocks |-> <<>>, trail |-> 0]

(* --- headers: a prefix, up to MaxTail characters; as they are, or padded to  *)
(* 43 bytes, or padded and followed by 4 more bytes                            --- *)

ByteOrderMark == <<239, 187, 191>>
\* the characters 3 5 6 9 0 1 x and space
TailChars == {51, 53, 54, 57, 48, 49, 120, 32}
\* "x" followed by "version=7"
LateVersionTail == <<120>> \o VersionEq \o <<55>>
HeaderPrefixes ==
    {GeneralMagic, ByteOrderMark \o GeneralMagic, <<82>> \o Tail(GeneralMagic),
     <<255>> \o GeneralMagic, <<>>}
\* beyond two characters a tail goes on with 0 and space
HeaderTails == SeqsThen(TailChars, 2, {48, 32}, MaxTail) \cup {LateVersionTail}

PadTo(bytes, n) == IF Len(bytes) >= n THEN bytes ELSE bytes \o Repeat(32, n - Len(bytes))

HeaderOrigins ==
    {[Origin("header") EXCEPT !.head = pre \o tl] :
        pre \in HeaderPrefixes, tl \in HeaderTails}
    \cup {[Origin("header") EXCEPT
              !.head = PadTo(pre \o tl, HeaderTextBytes), !.trail = t] :
              pre \in HeaderPrefixes, tl \in HeaderTails, t \in {0, 4}}

(* --- revision 3 / 5 --- *)

\* a generated document: a sequence of layers, a layer is the sequence of the
\* numbers of points of its strokes; the layers of a generated document have
\* the same number of strokes and the strokes the same number of points
Docs ==
    {[l \in 1..nl |-> [st \in 1..ns |-> np]] :
        nl \in 0..MaxLayers, ns \in 0..MaxStrokes, np \in 0..MaxPoints}
PenVals == {2, 99}
BadCounts == {-1, 3, 100, 101, 100000, 100001}

Overrides(doc) ==
    {[kind |-> "layers", layer |-> 0, stroke |-> 0, val |-> v] : v \in BadCounts}
    \cup {[kind |-> "strokes", layer |-> l, stroke |-> 0, val |-> v] :
             l \in 1..Len(doc), v \in BadCounts}
    \cup UNION {{[kind |-> "points", layer |-> l, stroke |-> st, val |-> v] :
                    st \in 1..Len(doc[l]), v \in BadCounts} : l \in 1..Len(doc)}

\* the six floats of the k-th generated point record: x = k, y = 2k, ...
V5PointBytes(k) == Flatten([f \in 1..6 |-> LE32(f * k)])

V5StrokeBytes(v, pen, declared, actual) ==
    LE32(pen) \o LE32(0) \o LE32(0) \o LE32(1073741824)
      \o (IF v = RMVersionV3 THEN <<>> ELSE LE32(0))
      \o LE32(declared) \o Flatten([k \in 1..actual |-> V5PointBytes(k)])

V5LayerBytes(v, pen, layer, l, ov) ==
    LE32(IF ov.kind = "strokes" /\ ov.layer = l THEN ov.val ELSE Len(layer))
      \o Flatten([st \in 1..Len(layer) |->
            V5StrokeBytes(v, pen,
                IF ov.kind = "points" /\ ov.layer = l /\ ov.stroke = st
                THEN ov.val ELSE layer[st],
                layer[st])])

V5BodyBytes(v, pen, doc, ov) ==
    LE32(IF ov.kind = "layers" THEN ov.val ELSE Len(doc))
      \o Flatten([l \in 1..Len(doc) |-> V5LayerBytes(v, pen, doc[l], l, ov)])

V5Head(v) == IF v = RMVersionV3 THEN HEADER_V3 ELSE PadTo(HEADER_V5, 43)

\* a well-formed document, or one count field overwritten, or the end cut off
V5Origins ==
    {[Origin("v5") EXCEPT !.ver = v, !.doc = d, !.pen = pn] :
        v \in {RMVersionV3, RMVersionV5}, d \in Docs, pn \in PenVals}
    \cup UNION {{[Origin("v5") EXCEPT !.ver = v, !.doc = d, !.pen = 2, !.ov = o] :
                    o \in Overrides(d)} :
                v \in {RMVersionV3, RMVersionV5}, d \in Docs}
    \cup {[Origin("v5") EXCEPT !.ver = v, !.doc = d, !.pen = 2, !.cut = c] :
            v \in {RMVersionV3, RMVersionV5}, d \in Docs, c \in 1..MaxCut}

V5Bytes(o) ==
    LET b == V5BodyBytes(o.ver, o.pen, o.doc, o.ov)
    IN  V5Head(o.ver) \o SubSeq(b, 1, Len(b) - Min(o.cut, Len(b)))

(* --- revision 6 --- *)

V6Head == PadTo(HEADER_V6, 43)

\* a 14-byte point record: x = k, y = 2k as bit patterns, speed, width, direction, pressure
V6PointBytes(k) == LE32(k) \o LE32(2 * k) \o <<k, 0, 255, 255, 255, 128>>

\* a chunk of a line-definition block: its bytes, and whether it is one complete
\* field with an index outside 1..7 and one of the five wire types
Field(bytes, unknown) == [bytes |-> bytes, unknown |-> unknown]

FieldMenu ==
    << Field(<<31, 1, 129, 1>> \o <<20>> \o LE32(2) \o <<36>> \o LE32(-1)
               \o <<56>> \o LE32(0) \o LE32(1073741824) \o <<68>> \o LE32(5)
               \o <<111, 7, 8>>, FALSE),          \* 1:ID 1:Byte4 2:Byte4 3:Byte8 4:Byte4 6:ID
       Field(<<92>> \o LE32(14) \o V6PointBytes(1), FALSE),          \* 5:Length4, one record
       Field(<<128, 1>>, FALSE),                                     \* 8:type 0 (no such type)
       Field(<<129, 1, 92>>, TRUE),                                  \* 8:Byte1
       Field(<<4, 20, 99, 0, 0>>, TRUE),                             \* 0:Byte4
       Field(<<152, 1>> \o LE32(7) \o LE32(8), TRUE),                \* 9:Byte8
       Field(<<140, 1>> \o LE32(3) \o <<20, 92, 36>>, TRUE),         \* 8:Length4, 3 bytes
       Field(<<175, 1, 133, 2, 7>>, TRUE) >>                         \* 10:ID

FieldsBytes(fs) == Flatten([k \in 1..Len(fs) |-> FieldMenu[fs[k]].bytes])

\* a block: the 8-byte header (length, flag) and the body
BlockBytes(length, flag, body) == LE32(length) \o LE32(flag) \o body

\* one line-definition block that ends with the buffer
V6TagOrigins ==
    {[Origin("v6tags") EXCEPT !.ver = RMVersionV6, !.fields = fs] :
        fs \in SeqsThen(DOMAIN FieldMenu, 3, {2, 7}, MaxFields) \ {<<>>}}

V6TagBytes(o) ==
    V6Head \o BlockBytes(Len(FieldsBytes(o.fields)), LINE_DEF, FieldsBytes(o.fields))
           \o Repeat(0, o.trail)

\* fields with a recognized index and another wire type than the decoder
\* expects for it, and a points sub-block of 15 bytes
OddFieldMenu ==
    << <<17, 92>>,                                     \* 1:Byte1
       <<52, 129, 129, 129, 129>>,                       \* 3:Byte4
       <<92>> \o LE32(15) \o V6PointBytes(1) \o <<128>>, \* 5:Length4, one record and a byte
       <<108>> \o LE32(3) \o <<20, 92, 36>> >>         \* 6:Length4, 3 bytes

\* one line-definition block that ends with the buffer: one of these fields,
\* then a points sub-block of one record
V6OddOrigins ==
    {[Origin("v6odd") EXCEPT !.ver = RMVersionV6, !.fields = <<k>>] : k \in DOMAIN OddFieldMenu}

V6OddBytes(o) ==
    LET body == OddFieldMenu[o.fields[1]] \o FieldMenu[2].bytes
    IN  V6Head \o BlockBytes(Len(body), LINE_DEF, body)

\* a block of a generated stream: the declared length, the flag, the body,
\* whether the body is well-formed, whether the declared length is the length
\* of the body, and the stroke of the block, if it holds one
Block(length, flag, body, sound, hasStroke, a) ==
    [length |-> length, flag |-> flag, body |-> body, sound |-> sound,
     good |-> length = Len(body), hasStroke |-> hasStroke, stroke |-> V6StrokeOf(a)]

StrokeBody1 == <<20>> \o LE32(2) \o <<92>> \o LE32(14) \o V6PointBytes(1)
StrokeBody2 == <<92>> \o LE32(14) \o V6PointBytes(2)
StrokeBody3 == <<92>> \o LE32(14) \o V6PointBytes(3) \o <<129, 1, 255>>
\* a line definition whose last field (1:Byte4) is cut short
StrokeBody4 == <<92>> \o LE32(14) \o V6PointBytes(4) \o <<20, 1, 2>>
PointOf(k) == V6Point(BufferOfBytes(V6PointBytes(k)), 0)

BlockMenu ==
    << Block(Len(StrokeBody1), LINE_DEF, StrokeBody1, TRUE, TRUE,
             [NewAcc EXCEPT !.pen = 2, !.points = <<PointOf(1)>>]),
       Block(Len(StrokeBody3), LINE_DEF, StrokeBody3, TRUE, TRUE,
             [NewAcc EXCEPT !.points = <<PointOf(3)>>]),
       Block(4, LAYER_DEF, <<1, 2, 3, 4>>, TRUE, FALSE, NewAcc),
       Block(Len(StrokeBody4), LINE_DEF, StrokeBody4, FALSE, FALSE, NewAcc),
       Block(0, LINE_DEF, StrokeBody2, TRUE, FALSE, NewAcc),
       Block(-1, LINE_DEF, <<255, 255, 255, 255, 255>>, TRUE, FALSE, NewAcc) >>

BlocksBytes(bs) ==
    Flatten([k \in 1..Len(bs) |->
                BlockBytes(BlockMenu[bs[k]].length, BlockMenu[bs[k]].flag,
                           BlockMenu[bs[k]].body)])

V6BlockOrigins ==
    {[Origin("v6blocks") EXCEPT !.ver = RMVersionV6, !.blocks = bs] :
        bs \in SeqsThen(DOMAIN BlockMenu, 3, {1, 5}, MaxBlocks)}

(* --- a buffer of 10,000,052 bytes: a block of 10,000,001 bytes that fits   *)
(* the buffer, then a block of 9,999,990 bytes that ends 3 bytes before the  *)
(* end of the buffer; all other bytes are 0                                  *)

HugeLength == 51 + MaxBlockLength + 1
HugeOrigin == [Origin("huge") EXCEPT !.ver = RMVersionV6]
HugeBytes ==
    V6Head \o LE32(MaxBlockLength + 1) \o <<1, 1, 1, 1>>
           \o LE32(9999990) \o LE32(LAYER_DEF)

(* --- documents handed on to the converter: revision 5 documents whose     *)
(* layers all hold the same strokes, and a few revision 6 streams          --- *)

MaxConvLayers == 2      \* layers of a generated document that is converted
MaxConvStrokes == 2     \* strokes in each of its layers

\* float32 bit patterns
\* the bits of a float32 with sign s, exponent field e and fraction field f
F32Bits(s, e, f) ==
    IF s = 0 THEN e * Pow2(23) + f
    ELSE ((e * Pow2(23) + f) - Pow2(30)) - Pow2(30)
F32Half == F32Bits(0, 126, 0)
F32One == F32Bits(0, 127, 0)
F32Two == F32Bits(0, 128, 0)
F32Three == F32Bits(0, 128, Pow2(22))
F32Twenty == F32Bits(0, 131, Pow2(21))
F32MinusOne == F32Bits(1, 127, 0)
F32NaN == F32Bits(0, 255, Pow2(22))

\* generated points: x, y and pressure
ConvPoint(x, y, pressure) == [x |-> x, y |-> y, pressure |-> pressure]
ConvPointMenu ==
    << ConvPoint(F32One, F32Two, F32Half),
       ConvPoint(F32Three, F32One, F32Two),
       ConvPoint(F32Two, F32Three, F32MinusOne),
       ConvPoint(F32NaN, F32One, F32NaN) >>

\* generated strokes: pen, color, width and points
ConvStroke(pen, color, width, pts) ==
    [pen |-> pen, color |-> color, width |-> width, pts |-> pts]
ConvStrokeMenu ==
    << ConvStroke(0, 0, F32Two, <<1, 2>>),              \* ballpoint, black
       ConvStroke(4, 0, F32Two, <<1>>),                 \* eraser
       ConvStroke(16, 2, F32Two, <<2, 3>>),             \* eraser (second variant)
       ConvStroke(99, 9, F32Twenty, <<3, 1, 2>>),       \* no such pen, no such color
       ConvStroke(3, 3, F32Twenty, <<2, 3>>),           \* highlighter, yellow
       ConvStroke(-1, -1, F32NaN, <<4, 1>>),            \* FF FF FF FF as pen and color, NaN
       ConvStroke(0, 7, F32Half, <<>>) >>               \* no points

ConvPointBytes(p) ==
    LE32(p.x) \o LE32(p.y) \o LE32(0) \o LE32(0) \o LE32(0) \o LE32(p.pressure)

ConvStrokeBytes(st) ==
    LE32(st.pen) \o LE32(st.color) \o LE32(0) \o LE32(st.width) \o LE32(0)
      \o LE32(Len(st.pts))
      \o Flatten([k \in 1..Len(st.pts) |-> ConvPointBytes(ConvPointMenu[st.pts[k]])])

ConvLayerBytes(layer) ==
    LE32(Len(layer)) \o Flatten([k \in 1..Len(layer) |-> ConvStrokeBytes(ConvStrokeMenu[layer[k]])])

ConvBytes(o) ==
    V5Head(RMVersionV5) \o LE32(Len(o.doc))
      \o Flatten([l \in 1..Len(o.doc) |-> ConvLayerBytes(o.doc[l])])

ConvOrigins ==
    {[Origin("conv") EXCEPT !.ver = RMVersionV5, !.doc = [l \in 1..nl |-> ss]] :
        nl \in 0..MaxConvLayers,
        ss \in {q \in SeqsUpTo(DOMAIN ConvStrokeMenu, MaxConvStrokes) :
                  \A i, j \in 1..Len(q) : i <= j => q[i] <= q[j]}}
    \cup {[Origin("v6tags") EXCEPT !.ver = RMVersionV6, !.fields = fs] : fs \in {<<1, 2>>, <<2>>}}
    \cup {[Origin("v6blocks") EXCEPT !.ver = RMVersionV6, !.blocks = <<1, 3, 2>>]}

Origins ==
    HeaderOrigins \cup V5Origins \cup V6TagOrigins \cup V6OddOrigins \cup V6BlockOrigins
        \cup {HugeOrigin}

BufferOf(o) ==
    IF o.family = "header" THEN BufferOfBytes(o.head \o Repeat(0, o.trail))
    ELSE IF o.family = "v5" THEN BufferOfBytes(V5Bytes(o))
    ELSE IF o.family = "v6tags" THEN BufferOfBytes(V6TagBytes(o))
    ELSE IF o.family = "v6odd" THEN BufferOfBytes(V6OddBytes(o))
    ELSE IF o.family = "v6blocks" THEN BufferOfBytes(V6Head \o BlocksBytes(o.blocks))
    ELSE IF o.family = "conv" THEN BufferOfBytes(ConvBytes(o))
    ELSE [BufferOfBytes(HugeBytes) EXCEPT !.len = HugeLength]

------------------------------------------------------------------------------
(* The decoder as a state machine *)

\* steps: decode steps taken after the header; counts: the count fields read;
\* pushedAt: the block start of every stroke pushed by parseV6; tagAt: the
\* offsets at which parseV6Stroke has read a tag; caught: the exceptions caught
\* by parseV6Stroke
NoHist == [steps |-> 0, counts |-> {}, pushedAt |-> <<>>, tagAt |-> {}, caught |-> 0]

Count(kind, val) == [kind |-> kind, val |-> val]

\* no call of readVaruint on its own
NoVaruint == [value |-> 0, cursor |-> -1]
VaruintIdle == vbuf = BufferOfBytes(<<>>) /\ vstart = 0 /\ vres = NoVaruint

\* no converter, nothing converted
NoOptions == [preserveLayers |-> FALSE, includeEraser |-> FALSE, strokeWidthScale |-> <<0, 1>>]
NoImage == [dataUrl |-> "", width |-> Fin(0), height |-> Fin(0)]
NoOutput == [type |-> "none", elements |-> <<>>, files |-> <<>>]
ConverterIdle ==
    /\ cpc = "none"
    /\ options = NoOptions
    /\ layerGroupIds = <<>>
    /\ backgroundImage = NoImage
    /\ output = NoOutput
    /\ previous = NoOutput
    /\ converted = <<>>
    /\ ids = 0
    /\ seeds = 0
    /\ now = 0

\* a decoder constructed on one of the buffers os
ParserInit(os) ==
    /\ origin \in os
    /\ buffer = BufferOf(origin)
    /\ cursor = 0
    /\ version = RMVersionUNKNOWN
    /\ pc = "parse"
    /\ result = NoResult
    /\ numLayers = 0
    /\ layerIndex = 0
    /\ layers = <<>>
    /\ numStrokes = 0
    /\ strokeI = 0
    /\ strokes = <<>>
    /\ blockStart = 0
    /\ blockEnd = 0
    /\ acc = NewAcc
    /\ hist = NoHist

\* no batch is running
BatchIdle ==
    bpc = "idle" /\ pages = <<>> /\ pageNum = 0 /\ saved = {} /\ reported = {}

\* no call of syncDocument was made
NoMeta == [kind |-> "none"]
NoDoc == [lastModified |-> 0, pages |-> <<>>]
SyncIdle ==
    /\ syncPc = "idle" /\ syncDoc = NoDoc /\ forceReimport = FALSE /\ sidecar = NoMeta
    /\ existingMeta = NoMeta /\ docPageNum = 0 /\ pageFiles = {} /\ written = {}
    /\ returned = "none" /\ syncedAt = -1 /\ calls = 0

\* the plugin was not loaded
TimerIdle ==
    /\ autoSync = FALSE /\ autoSyncInterval = 0 /\ timers = {} /\ timerIds = 0
    /\ lastCall = "none"

\* no invocation of runSync was made
RaceIdle == vault = {} /\ runs = <<>> /\ syncedDocs = {} /\ docCount = 0

\* no call of buildFolderPath was made
PathIdle ==
    /\ pathPc = "idle" /\ metadataFiles = <<>> /\ currentParent = 0 /\ parts = <<>>
    /\ folderPath = <<>>

PluginIdle == SyncIdle /\ TimerIdle /\ RaceIdle /\ PathIdle

Init == ParserInit(Origins) /\ VaruintIdle /\ ConverterIdle /\ BatchIdle /\ PluginIdle

Return(r) == result' = r /\ pc' = "done"

\* parse(): the header check and the dispatch on the version; the first
\* statements of parseV6 (cursor = 43, strokes = []) are part of this step
HeaderFailureNoOffset(h) ==
    [Failure(IF h.error = <<>> THEN <<SegText("Invalid header")>> ELSE h.error, 0)
        EXCEPT !.error.hasOffset = FALSE]

HeaderFailure(h) ==
    Failure(IF h.error = <<>> THEN <<SegText("Invalid header")>> ELSE h.error, 0)

Parse ==
    /\ pc = "parse"
    /\ LET h == validateHeader(buffer)
       IN  IF ~h.valid
           THEN /\ Return(HeaderFailure(h))
                /\ UNCHANGED <<version, cursor, strokes>>
           ELSE /\ version' = h.version
                /\ IF h.version = RMVersionV6
                   THEN /\ cursor' = V6_HEADER_SIZE
                        /\ strokes' = <<>>
                        /\ pc' = "parseV6"
                        /\ UNCHANGED result
                   ELSE IF h.version = RMVersionV5 \/ h.version = RMVersionV3
                   THEN /\ pc' = "parseV5"
                        /\ UNCHANGED <<cursor, strokes, result>>
                   ELSE /\ Return(Failure(<<Seg("Cannot parse version", h.version)>>, 0))
                        /\ UNCHANGED <<cursor, strokes>>
    /\ UNCHANGED <<buffer, numLayers, layerIndex, layers, numStrokes, strokeI,
                   blockStart, blockEnd, acc, hist, origin>>
    /\ UNCHANGED otherVars

LayerCountInvalidNoCeiling(n) == n < 0

\* the check of a layer count
LayerCountInvalid(n) == n < 0 \/ n > MaxLayerCount

\* parseV5 up to the layer loop
ParseV5 ==
    /\ pc = "parseV5"
    /\ LET headerSize == IF HEADER_SIZES(version) = 0 THEN 43 ELSE HEADER_SIZES(version)
           rd == ReadWords(buffer, headerSize, 1)
       IN  IF headerSize + 4 > ByteLength(buffer)
           THEN /\ cursor' = headerSize
                /\ Return(Failure(<<SegText("Unexpected end of file: cannot read layer count")>>,
                                  headerSize))
                /\ UNCHANGED <<numLayers, layerIndex, layers>>
                /\ hist' = [hist EXCEPT !.steps = @ + 1]
           ELSE IF rd.threw
           THEN /\ cursor' = rd.cursor
                /\ Return(Caught(rd.cursor))
                /\ UNCHANGED <<numLayers, layerIndex, layers>>
                /\ hist' = [hist EXCEPT !.steps = @ + 1]
           ELSE /\ cursor' = rd.cursor
                /\ numLayers' = rd.words[1]
                /\ hist' = [hist EXCEPT !.steps = @ + 1,
                                        !.counts = @ \cup {Count("layers", rd.words[1])}]
                /\ IF LayerCountInvalid(rd.words[1])
                   THEN /\ Return(Failure(<<Seg("Invalid layer count", rd.words[1])>>,
                                          rd.cursor - 4))
                        /\ UNCHANGED <<layerIndex, layers>>
                   ELSE /\ layerIndex' = 0
                        /\ layers' = <<>>
                        /\ pc' = "parseLayer"
                        /\ UNCHANGED result
    /\ UNCHANGED <<buffer, version, numStrokes, strokeI, strokes, blockStart,
                   blockEnd, acc, origin>>
    /\ UNCHANGED otherVars

StrokeCountInvalidNegativeOnly(n) == n < 0

\* the check of a stroke count
StrokeCountInvalid(n) == n < 0 \/ n > MaxStrokeCount

\* parseLayer up to its stroke loop: the stroke count
parseLayerHead(buf, c) ==
    IF c + 4 > ByteLength(buf)
    THEN [threw |-> FALSE, success |-> FALSE, cursor |-> c, read |-> FALSE,
          numStrokes |-> 0, error |-> <<SegText("Cannot read stroke count")>>]
    ELSE LET rd == ReadWords(buf, c, 1)
         IN  IF rd.threw
             THEN [threw |-> TRUE, success |-> FALSE, cursor |-> rd.cursor, read |-> FALSE,
                   numStrokes |-> 0, error |-> <<>>]
             ELSE IF StrokeCountInvalid(rd.words[1])
             THEN [threw |-> FALSE, success |-> FALSE, cursor |-> rd.cursor, read |-> TRUE,
                   numStrokes |-> rd.words[1],
                   error |-> <<Seg("Invalid stroke count", rd.words[1])>>]
             ELSE [threw |-> FALSE, success |-> TRUE, cursor |-> rd.cursor, read |-> TRUE,
                   numStrokes |-> rd.words[1], error |-> <<>>]

\* the message of parseV5 for a failed layer
LayerFailure(li, layerError, c) ==
    Failure(<<Seg("Failed to parse layer", li)>> \o layerError, c)

\* one pass of the layer loop of parseV5: the call of parseLayer, up to its stroke loop
ParseLayer ==
    /\ pc = "parseLayer"
    /\ layerIndex < numLayers
    /\ LET r == parseLayerHead(buffer, cursor)
       IN  /\ cursor' = r.cursor
           /\ hist' = [hist EXCEPT !.steps = @ + 1,
                                   !.counts = IF r.read
                                              THEN @ \cup {Count("strokes", r.numStrokes)}
                                              ELSE @]
           /\ IF r.threw
              THEN Return(Caught(r.cursor)) /\ UNCHANGED <<numStrokes, strokeI, strokes>>
              ELSE IF ~r.success
              THEN /\ Return(LayerFailure(layerIndex, r.error, r.cursor))
                   /\ UNCHANGED <<numStrokes, strokeI, strokes>>
              ELSE /\ numStrokes' = r.numStrokes
                   /\ strokeI' = 0
                   /\ strokes' = <<>>
                   /\ pc' = "parseStroke"
                   /\ UNCHANGED result
    /\ UNCHANGED <<buffer, version, numLayers, layerIndex, layers, blockStart,
                   blockEnd, acc, origin>>
    /\ UNCHANGED otherVars

\* the end of the layer loop: parseV5 returns the document
ParseV5Return ==
    /\ pc = "parseLayer"
    /\ layerIndex >= numLayers
    /\ Return(Success(version, layers))
    /\ UNCHANGED <<buffer, cursor, version, numLayers, layerIndex, layers, numStrokes,
                   strokeI, strokes, blockStart, blockEnd, acc, hist, origin>>
    /\ UNCHANGED otherVars

StrokeFailureNoIndex(i, strokeError) == strokeError

\* the message of parseLayer for a failed stroke
StrokeFailure(i, strokeError) == <<Seg("Stroke", i)>> \o strokeError

\* one pass of the stroke loop of parseLayer: the call of parseStroke
ParseStroke ==
    /\ pc = "parseStroke"
    /\ strokeI < numStrokes
    /\ LET r == parseStroke(buffer, cursor, version, layerIndex)
       IN  /\ cursor' = r.cursor
           /\ hist' = [hist EXCEPT !.steps = @ + 1,
                                   !.counts = IF r.read
                                              THEN @ \cup {Count("points", r.numPoints)}
                                              ELSE @]
           /\ IF r.threw
              THEN Return(Caught(r.cursor)) /\ UNCHANGED <<strokeI, strokes>>
              ELSE IF ~r.success
              THEN /\ Return(LayerFailure(layerIndex, StrokeFailure(strokeI, r.error),
                                          r.cursor))
                   /\ UNCHANGED <<strokeI, strokes>>
              ELSE /\ strokes' = Append(strokes, r.stroke)
                   /\ strokeI' = strokeI + 1
                   /\ UNCHANGED <<pc, result>>
    /\ UNCHANGED <<buffer, version, numLayers, layerIndex, layers, numStrokes,
                   blockStart, blockEnd, acc, origin>>
    /\ UNCHANGED otherVars

\* the end of the stroke loop: parseLayer returns and parseV5 collects the layer
ParseLayerReturn ==
    /\ pc = "parseStroke"
    /\ strokeI >= numStrokes
    /\ layers' = Append(layers, strokes)
    /\ layerIndex' = layerIndex + 1
    /\ pc' = "parseLayer"
    /\ UNCHANGED <<buffer, cursor, version, result, numLayers, numStrokes, strokeI,
                   strokes, blockStart, blockEnd, acc, hist, origin>>
    /\ UNCHANGED otherVars

\* one pass of the block scan of parseV6
V6Block ==
    /\ pc = "parseV6"
    /\ cursor + 8 <= ByteLength(buffer)
    /\ LET rd == ReadWords(buffer, cursor, 2)
       IN  /\ blockStart' = cursor
           /\ hist' = [hist EXCEPT !.steps = @ + 1]
           /\ IF rd.threw
              THEN /\ cursor' = rd.cursor
                   /\ Return(Caught(rd.cursor))
                   /\ UNCHANGED <<blockEnd, acc>>
              ELSE LET length == rd.words[1]
                       flag == rd.words[2]
                   IN  IF BlockRejected(buffer, rd.cursor, length)
                       THEN /\ cursor' = cursor + 1
                            /\ UNCHANGED <<pc, result, blockEnd, acc>>
                       ELSE IF flag = LINE_DEF
                       THEN /\ blockEnd' = rd.cursor + length
                            /\ cursor' = rd.cursor
                            /\ acc' = NewAcc
                            /\ pc' = "parseV6Stroke"
                            /\ UNCHANGED result
                       ELSE /\ cursor' = rd.cursor + length
                            /\ UNCHANGED <<pc, result, blockEnd, acc>>
    /\ UNCHANGED <<buffer, version, numLayers, layerIndex, layers, numStrokes,
                   strokeI, strokes, origin>>
    /\ UNCHANGED otherVars

V6LayersUnlessEmpty(ss) == IF ss = <<>> THEN <<>> ELSE <<ss>>

\* const layers: Stroke[][] = [strokes]
V6Layers(ss) == <<ss>>

\* the end of the block scan: all strokes go to layer 0
V6Return ==
    /\ pc = "parseV6"
    /\ cursor + 8 > ByteLength(buffer)
    /\ Return(Success(version, V6Layers(strokes)))
    /\ UNCHANGED <<buffer, cursor, version, numLayers, layerIndex, layers, numStrokes,
                   strokeI, strokes, blockStart, blockEnd, acc, hist, origin>>
    /\ UNCHANGED otherVars

\* one pass of the tag loop of parseV6Stroke; an exception is caught there,
\* the stroke is dropped and parseV6 goes on after the block
V6Tag ==
    /\ pc = "parseV6Stroke"
    /\ cursor < blockEnd
    /\ LET r == TagStep(buffer, cursor, blockEnd, acc)
       IN  /\ hist' = [hist EXCEPT !.steps = @ + 1, !.tagAt = @ \cup {cursor},
                                   !.caught = IF r.threw THEN @ + 1 ELSE @]
           /\ IF r.threw
              THEN /\ cursor' = blockEnd
                   /\ pc' = "parseV6"
                   /\ UNCHANGED acc
              ELSE /\ cursor' = r.cursor
                   /\ acc' = r.acc
                   /\ UNCHANGED pc
    /\ UNCHANGED <<buffer, version, result, numLayers, layerIndex, layers, numStrokes,
                   strokeI, strokes, blockStart, blockEnd, origin>>
    /\ UNCHANGED otherVars

\* strokeResult.success && strokeResult.stroke.points.length > 0
Pushed(stroke) == Len(stroke.points) > 0

\* the end of the tag loop: parseV6Stroke returns the stroke, parseV6 pushes
\* it and moves to the end of the block
V6StrokeReturn ==
    /\ pc = "parseV6Stroke"
    /\ cursor >= blockEnd
    /\ IF Pushed(V6StrokeOf(acc))
       THEN /\ strokes' = Append(strokes, V6StrokeOf(acc))
            /\ hist' = [hist EXCEPT !.steps = @ + 1, !.pushedAt = Append(@, blockStart)]
       ELSE /\ UNCHANGED strokes
            /\ hist' = [hist EXCEPT !.steps = @ + 1]
    /\ cursor' = blockEnd
    /\ pc' = "parseV6"
    /\ UNCHANGED <<buffer, version, result, numLayers, layerIndex, layers, numStrokes,
                   strokeI, blockStart, blockEnd, acc, origin>>
    /\ UNCHANGED otherVars

Next ==
    \/ Parse
    \/ ParseV5
    \/ ParseLayer
    \/ ParseV5Return
    \/ ParseStroke
    \/ ParseLayerReturn
    \/ V6Block
    \/ V6Return
    \/ V6Tag
    \/ V6StrokeReturn

Spec == Init /\ [][Next]_vars

TypeOK == pc \in {"idle", "parse", "parseV5", "parseLayer", "parseStroke", "parseV6",
                  "parseV6Stroke", "done"}

------------------------------------------------------------------------------
(* Properties *)

Done == pc = "done"

\* the bytes of the buffer that hold the header text, as they are (no decoding)
RawHeader == HeaderBytes(buffer)

\* the buffer begins with "reMarkable .lines file, version=" and a digit
BeginsWithVersionNumber ==
    /\ ByteLength(buffer) >= 33
    /\ SubSeq(RawHeader, 1, 32) = GeneralMagic
    /\ IsDigit(RawHeader[33])

\* the decimal number that follows "version="
VersionNumber == ParseInt(RawHeader, 33, DigitsEnd(RawHeader, 33))

\* C1: parse never throws: whenever it has returned, the result is a success
\* with a document of a supported revision or a failure whose error carries a
\* message and a byte offset
C1_ParseReturnsResult ==
    /\ result.kind \in {"none", "success", "failure"}
    /\ Done => result.kind \in {"success", "failure"}
    /\ result.kind = "success" =>
          /\ result.document.version \in {3, 5, 6}
          /\ result.error = NoError
    /\ result.kind = "failure" =>
          /\ result.error.message # <<>>
          /\ result.error.hasOffset
          /\ result.error.offset >= 0
          /\ result.document = NoDocument

C1_Witness ==
    /\ Done
    /\ result.kind = "failure"
    /\ result.error.offset > 43
    /\ origin.cut > 0

\* C2: a buffer of at least 33 bytes that begins with the general magic and a
\* decimal number N other than 3, 5 and 6 is never decoded as revision 3, 5 or
\* 6, and parse returns the failure "Unsupported version: N"
C2_UnsupportedVersionNamed ==
    (BeginsWithVersionNumber /\ VersionNumber \notin {3, 5, 6}) =>
        /\ pc \in {"parse", "done"}
        /\ version = RMVersionUNKNOWN
        /\ Done => result = Failure(<<Seg("Unsupported version", VersionNumber)>>, 0)

\* C3: a buffer shorter than 33 bytes, or one that does not begin with the
\* magic string, is never decoded (no layer, stroke or block step is taken for
\* it) and parse returns an invalid-header failure with offset 0
C3_InvalidHeaderRejected ==
    (ByteLength(buffer) < 33 \/ SubSeq(RawHeader, 1, 32) # GeneralMagic) =>
        /\ pc \in {"parse", "done"}
        /\ hist.steps = 0
        /\ result.kind # "success"
        /\ Done =>
              /\ result.kind = "failure"
              /\ result.error.offset = 0
              /\ result.error.message \in
                    {<<Seg("File too small", ByteLength(buffer))>>,
                     <<SegText("Invalid file format: missing reMarkable header magic string")>>}

\* a count field outside its sanity range: 0..100 layers, 0..100000 strokes or points
OutOfRange(c) == c.val < 0 \/ c.val > (IF c.kind = "layers" THEN 100 ELSE 100000)

\* C4: in revision 3/5 decoding the decode fails as soon as a layer count,
\* stroke count or point count outside its sanity range has been read, so a
\* successful decode has read only counts inside their ranges
C4_CountsInRange ==
    version \in {RMVersionV3, RMVersionV5} =>
        /\ (\E c \in hist.counts : OutOfRange(c)) => (Done /\ result.kind = "failure")
        /\ result.kind = "success" => \A c \in hist.counts : ~OutOfRange(c)

C4_Witness ==
    /\ Done
    /\ result.kind = "failure"
    /\ Count("layers", 101) \in hist.counts
    /\ origin.ov.kind = "layers"

\* the last segment of the message of a failure: the read that failed
Cause == result.error.message[Len(result.error.message)].text
OverrunCauses ==
    {"Cannot read stroke count", "Cannot read stroke header", "Not enough bytes for points"}
Names(text, n) == \E k \in 1..Len(result.error.message) :
                     result.error.message[k] = Seg(text, n)

\* C5 as claimed: in revision 3/5 decoding a read past the end of the buffer
\* (stroke count, stroke header or point records) gives one failure without a
\* document, and the error names the layer and the stroke index that failed
C5_OverrunNamesLayerAndStroke ==
    (Done /\ version \in {RMVersionV3, RMVersionV5} /\ result.kind = "failure"
          /\ Cause \in OverrunCauses) =>
        /\ result.document = NoDocument
        /\ Names("Failed to parse layer", layerIndex)
        /\ Names("Stroke", strokeI)

\* C5 as amended: a buffer that ends inside the document gives one failure
\* without a document; the error names the layer, and it names the stroke
\* index when the read that failed is a stroke header or the point records (a
\* stroke count that cannot be read belongs to no stroke)
C5_OverrunNamesLayer ==
    /\ (Done /\ origin.family = "v5" /\ origin.cut > 0) => result.kind = "failure"
    /\ (Done /\ version \in {RMVersionV3, RMVersionV5} /\ result.kind = "failure"
             /\ Cause \in OverrunCauses) =>
          /\ result.document = NoDocument
          /\ result.error.offset = cursor
          /\ Names("Failed to parse layer", layerIndex)
          /\ IF Cause = "Cannot read stroke count"
             THEN Len(result.error.message) = 2
             ELSE Len(result.error.message) = 3 /\ Names("Stroke", strokeI)

C5_Witness ==
    /\ Done
    /\ result.kind = "failure"
    /\ Cause = "Not enough bytes for points"
    /\ layerIndex = 1
    /\ strokeI = 1
    /\ Len(layers) = 1
    /\ origin.cut > 0

\* C6: a layer count or stroke count that the decoder goes on with can be held
\* by the bytes that remain: 4 bytes for each layer, a stroke header for each
\* stroke
C6_CountsFitRemainingBytes ==
    /\ (pc = "parseLayer" /\ layerIndex = 0) =>
          numLayers * 4 <= ByteLength(buffer) - cursor
    /\ (pc = "parseStroke" /\ strokeI = 0) =>
          numStrokes * StrokeHeaderSize(version) <= ByteLength(buffer) - cursor

\* the length field of the block header at offset c, read from the bytes:
\* whether it is 2^31 or more, and its value when it is not
LengthHuge(c) == ByteAt(buffer, c + 3) >= 128
LengthAt(c) ==
    ByteAt(buffer, c) + 256 * ByteAt(buffer, c + 1) + 65536 * ByteAt(buffer, c + 2)
      + 16777216 * ByteAt(buffer, c + 3)
\* the flag of the block header at offset c is LINE_DEF (00 02 02 05)
FlagIsLineDef(c) ==
    <<ByteAt(buffer, c + 4), ByteAt(buffer, c + 5), ByteAt(buffer, c + 6),
      ByteAt(buffer, c + 7)>> = <<0, 2, 2, 5>>
LengthRefused(c) ==
    \/ LengthHuge(c)
    \/ LengthAt(c) = 0
    \/ LengthAt(c) > ByteLength(buffer) - (c + 8)
    \/ LengthAt(c) > 10000000

\* C7: the revision-6 scan starts at offset 43; a block whose length is 0,
\* exceeds the bytes after its 8-byte header or exceeds 10,000,000 makes the
\* scan resume one byte after the block start; every other block is consumed
\* whole, the scan resumes at block start + 8 + length, and the block is
\* decoded as a stroke exactly if its flag is LINE_DEF
C7_BlockScanStep ==
    [][ /\ (pc = "parse" /\ pc' = "parseV6") => cursor' = 43
        /\ (pc = "parseV6" /\ cursor + 8 <= ByteLength(buffer)) =>
              IF LengthRefused(cursor)
              THEN cursor' = cursor + 1 /\ pc' = "parseV6" /\ strokes' = strokes
              ELSE IF FlagIsLineDef(cursor)
              THEN /\ pc' = "parseV6Stroke"
                   /\ blockStart' = cursor
                   /\ blockEnd' = cursor + 8 + LengthAt(cursor)
              ELSE /\ pc' = "parseV6"
                   /\ cursor' = cursor + 8 + LengthAt(cursor)
                   /\ strokes' = strokes
        /\ (pc = "parseV6Stroke" /\ pc' = "parseV6") =>
              cursor' = blockStart + 8 + LengthAt(blockStart)
        /\ (pc = "parseV6Stroke" /\ pc' = "parseV6Stroke") =>
              UNCHANGED <<blockStart, blockEnd, strokes>>
      ]_vars

\* the block of 10,000,001 bytes that fits the buffer has been refused
C7_Witness ==
    /\ origin.family = "huge"
    /\ pc = "parseV6"
    /\ cursor = 44
    /\ ~LengthHuge(43)
    /\ LengthAt(43) = 10000001
    /\ LengthAt(43) <= ByteLength(buffer) - 51

\* the offset of the k-th block of a generated stream
RECURSIVE BlockOffset(_, _)
BlockOffset(bs, k) ==
    IF k = 1 THEN 43
    ELSE BlockOffset(bs, k - 1) + 8 + Len(BlockMenu[bs[k - 1]].body)

\* a stream of well-formed blocks, the length field of exactly one overwritten
OneLengthCorrupted(bs) ==
    /\ \A k \in 1..Len(bs) : BlockMenu[bs[k]].sound
    /\ Cardinality({k \in 1..Len(bs) : ~BlockMenu[bs[k]].good}) = 1

\* C8: a revision-6 stream of well-formed blocks in which one length field is
\* corrupted decodes to a document that holds the stroke of every intact
\* line-definition block, before and after the corrupted block
C8_ResyncKeepsStrokes ==
    (Done /\ origin.family = "v6blocks" /\ OneLengthCorrupted(origin.blocks)) =>
        \A k \in 1..Len(origin.blocks) :
            BlockMenu[origin.blocks[k]].hasStroke =>
                \E i \in 1..Len(hist.pushedAt) :
                    /\ hist.pushedAt[i] = BlockOffset(origin.blocks, k)
                    /\ result.document.layers[1][i] = BlockMenu[origin.blocks[k]].stroke

\* C9: a buffer recognized as revision 6 never gives a failure; parse returns
\* a document of exactly one layer whose strokes have layerIndex 0 and are in
\* the order of their blocks in the stream
C9_V6OneLayerSuccess ==
    version = RMVersionV6 =>
        /\ result.kind # "failure"
        /\ Done =>
              /\ result.kind = "success"
              /\ result.document.version = 6
              /\ Len(result.document.layers) = 1
              /\ Len(result.document.layers[1]) = Len(hist.pushedAt)
              /\ \A i \in 1..Len(result.document.layers[1]) :
                    result.document.layers[1][i].layerIndex = 0
              /\ \A i, j \in 1..Len(hist.pushedAt) :
                    i < j => hist.pushedAt[i] < hist.pushedAt[j]

\* a stroke, then a corrupt block, then a stroke block that fails to decode
C9_Witness ==
    /\ Done
    /\ result.kind = "success"
    /\ origin.family = "v6blocks"
    /\ hist.caught = 1
    /\ Len(result.document.layers[1]) = 1
    /\ \E k \in 1..Len(origin.blocks) : ~BlockMenu[origin.blocks[k]].good

\* the fields of a generated line-definition block without the unknown ones
KnownOnly(fs) == SelectSeq(fs, LAMBDA f : ~FieldMenu[f].unknown)

\* the offset of the k-th field of the generated block, and of its end
RECURSIVE FieldOffset(_, _)
FieldOffset(fs, k) ==
    IF k = 1 THEN 51 ELSE FieldOffset(fs, k - 1) + Len(FieldMenu[fs[k - 1]].bytes)
FieldEnd(fs, k) == FieldOffset(fs, k) + Len(FieldMenu[fs[k]].bytes)

UnknownFields(fs) == {k \in 1..Len(fs) : FieldMenu[fs[k]].unknown}

\* the same block without its unknown fields, decoded by parseV6Stroke
WithoutUnknown ==
    LET fs == KnownOnly(origin.fields)
    IN  parseV6Stroke(BufferOf([origin EXCEPT !.fields = fs]), 51,
                      51 + Len(FieldsBytes(fs)))

\* C10: in a line-definition block a field whose index is not one of 1..7 and
\* whose tag the decoder reads is consumed by its wire type alone (the next
\* tag is read where the field ends), and the block decodes to the stroke it
\* decodes to without its unknown fields
C10_UnknownFieldsSkipped ==
    (Done /\ origin.family = "v6tags"
          /\ \A k \in UnknownFields(origin.fields) :
                FieldOffset(origin.fields, k) \in hist.tagAt) =>
        /\ \A k \in UnknownFields(origin.fields) :
              \/ FieldEnd(origin.fields, k) \in hist.tagAt
              \/ k = Len(origin.fields)
        /\ result.document.layers[1] =
              IF WithoutUnknown.success /\ Pushed(WithoutUnknown.stroke)
              THEN <<WithoutUnknown.stroke>> ELSE <<>>

\* an unknown length-prefixed field between the pen field and the points
C10_Witness ==
    /\ Done
    /\ origin.family = "v6tags"
    /\ origin.fields = <<1, 7, 2>>
    /\ hist.tagAt = {51, 55, 60, 65, 74, 79, 82, 91}
    /\ result.document.layers[1] = <<WithoutUnknown.stroke>>
    /\ result.document.layers[1][1].pen = 2
    /\ Len(result.document.layers[1][1].points) = 1

------------------------------------------------------------------------------
(* The converter (src/src/converter.ts) *)

ERASER == 4
ERASER_V2 == 16

\* a PenCharacteristics value; the multiplier is the fraction <<p, q>>
PenCharacteristics(mult, sensitive, opacity, roughness, simulate) ==
    [baseMultiplier |-> mult, pressureSensitive |-> sensitive, opacity |-> opacity,
     roughness |-> roughness, strokeStyle |-> "solid", simulatePressure |-> simulate]

KnownPens == (0..8) \cup (12..18)

PEN_CHARACTERISTICS ==
    [pen \in KnownPens |->
        CASE pen \in {0, 12} -> PenCharacteristics(<<1, 1>>, TRUE, 100, 0, FALSE)
          [] pen \in {1, 13} -> PenCharacteristics(<<9, 5>>, TRUE, 100, 1, FALSE)
          [] pen \in {2, 14} -> PenCharacteristics(<<3, 5>>, FALSE, 100, 0, TRUE)
          [] pen \in {3, 15} -> PenCharacteristics(<<8, 1>>, FALSE, 40, 1, TRUE)
          [] pen \in {4, 16} -> PenCharacteristics(<<2, 1>>, TRUE, 100, 0, FALSE)
          [] pen \in {5, 17} -> PenCharacteristics(<<1, 2>>, TRUE, 90, 1, FALSE)
          [] pen \in {6, 18} -> PenCharacteristics(<<5, 2>>, TRUE, 100, 2, FALSE)
          [] pen = 7 -> PenCharacteristics(<<3, 2>>, TRUE, 100, 0, FALSE)
          [] pen = 8 -> PenCharacteristics(<<1, 1>>, TRUE, 85, 2, FALSE)]

DEFAULT_PEN_CHARACTERISTICS == PenCharacteristics(<<1, 1>>, TRUE, 100, 1, FALSE)

getPenCharacteristicsOrBallpoint(pen) ==
    IF pen \in DOMAIN PEN_CHARACTERISTICS THEN PEN_CHARACTERISTICS[pen]
    ELSE PEN_CHARACTERISTICS[BALLPOINT]

\* PEN_CHARACTERISTICS[pen] ?? DEFAULT_PEN_CHARACTERISTICS
getPenCharacteristics(pen) ==
    IF pen \in DOMAIN PEN_CHARACTERISTICS THEN PEN_CHARACTERISTICS[pen]
    ELSE DEFAULT_PEN_CHARACTERISTICS

COLOR_MAP ==
    [color \in 0..8 |->
        <<"#000000", "#808080", "#FFFFFF", "#FFEB3B", "#4CAF50", "#E91E63",
          "#2196F3", "#F44336", "#A0A0A0">>[color + 1]]

\* COLOR_MAP[color] ?? COLOR_MAP[RMColor.BLACK]
getHexColor(color) ==
    IF color \in DOMAIN COLOR_MAP THEN COLOR_MAP[color] ELSE COLOR_MAP[BLACK]

\* Math.max(1, Math.min(16, baseWidth * multiplier * scale))
calculateStrokeWidth(baseWidth, multiplier, scale) ==
    MathMax2(Fin(NumUnit),
             MathMin2(Fin(16 * NumUnit), NumTimes(NumTimes(baseWidth, multiplier), scale)))

\* Math.max(0, Math.min(1, pressure))
normalizePressure(pressure) == MathMax2(Fin(0), MathMin2(Fin(NumUnit), pressure))

\* the numbers of a decoded stroke: revision 3/5 holds floats read with
\* getFloat32; revision 6 holds the thickness read with getFloat64 and the
\* pressure byte divided by 255
WidthOf(v, stroke) ==
    IF v = RMVersionV6 THEN F64Value(stroke.width) ELSE F32Value(stroke.width)
PressureOf(v, point) ==
    IF v = RMVersionV6 THEN Ratio(point.pressure[1], point.pressure[2])
    ELSE F32Value(point.pressure)

isEraserStrokeFirstVariant(stroke) == stroke.pen = ERASER

isEraserStroke(stroke) == stroke.pen = ERASER \/ stroke.pen = ERASER_V2

\* calculatePressures(stroke, penChar)
calculatePressures(v, stroke, penChar) ==
    IF ~penChar.pressureSensitive
    THEN [i \in 1..Len(stroke.points) |-> Ratio(1, 2)]
    ELSE [i \in 1..Len(stroke.points) |-> normalizePressure(PressureOf(v, stroke.points[i]))]

\* convertStroke for a stroke with points: the freedraw element.  groupIds is
\* the list built from layerGroupIds, id and seed are the values returned by
\* generateId and generateSeed, t is Date.now()
convertStroke(v, stroke, opts, groupIds, id, seed, t) ==
    LET penChar == getPenCharacteristics(stroke.pen)
        xs == [i \in 1..Len(stroke.points) |-> F32Value(stroke.points[i].x)]
        ys == [i \in 1..Len(stroke.points) |-> F32Value(stroke.points[i].y)]
        minX == MathMin(xs)
        minY == MathMin(ys)
        maxX == MathMax(xs)
        maxY == MathMax(ys)
    IN  [type |-> "freedraw", version |-> 1, versionNonce |-> t, isDeleted |-> FALSE,
         id |-> id, fillStyle |-> "solid",
         strokeWidth |-> calculateStrokeWidth(WidthOf(v, stroke), penChar.baseMultiplier,
                                              opts.strokeWidthScale),
         strokeStyle |-> penChar.strokeStyle, roughness |-> penChar.roughness,
         opacity |-> penChar.opacity, angle |-> 0, x |-> minX, y |-> minY,
         strokeColor |-> getHexColor(stroke.color), backgroundColor |-> "transparent",
         width |-> NumSub(maxX, minX), height |-> NumSub(maxY, minY), seed |-> seed,
         groupIds |-> groupIds, updated |-> t, locked |-> FALSE,
         points |-> [i \in 1..Len(xs) |-> <<NumSub(xs[i], minX), NumSub(ys[i], minY)>>],
         pressures |-> calculatePressures(v, stroke, penChar),
         simulatePressure |-> penChar.simulatePressure]

createBackgroundImageElementUnlocked(fileId, width, height, id, seed, t) ==
    [type |-> "image", version |-> 1, versionNonce |-> t, isDeleted |-> FALSE,
     id |-> id, fillStyle |-> "solid", strokeWidth |-> Fin(NumUnit),
     strokeStyle |-> "solid", roughness |-> 0, opacity |-> 100, angle |-> 0,
     x |-> Fin(0), y |-> Fin(0), strokeColor |-> "transparent",
     backgroundColor |-> "transparent", width |-> width, height |-> height,
     seed |-> seed, groupIds |-> <<>>, updated |-> t, locked |-> FALSE,
     status |-> "saved", fileId |-> fileId, scale |-> <<1, 1>>]

\* createBackgroundImageElement(fileId, width, height)
createBackgroundImageElement(fileId, width, height, id, seed, t) ==
    [type |-> "image", version |-> 1, versionNonce |-> t, isDeleted |-> FALSE,
     id |-> id, fillStyle |-> "solid", strokeWidth |-> Fin(NumUnit),
     strokeStyle |-> "solid", roughness |-> 0, opacity |-> 100, angle |-> 0,
     x |-> Fin(0), y |-> Fin(0), strokeColor |-> "transparent",
     backgroundColor |-> "transparent", width |-> width, height |-> height,
     seed |-> seed, groupIds |-> <<>>, updated |-> t, locked |-> TRUE,
     status |-> "saved", fileId |-> fileId, scale |-> <<1, 1>>]

FlatStrokesLastLayerFirst(doc) ==
    Flatten([l \in 1..Len(doc.layers) |->
                LET m == Len(doc.layers) + 1 - l
                IN  [j \in 1..Len(doc.layers[m]) |->
                        [layer |-> m - 1, index |-> j, stroke |-> doc.layers[m][j]]]])

\* the strokes of a document in the order of the two forEach loops, each with
\* the index of its layer and its position in the layer
FlatStrokes(doc) ==
    Flatten([l \in 1..Len(doc.layers) |->
                [j \in 1..Len(doc.layers[l]) |->
                    [layer |-> l - 1, index |-> j, stroke |-> doc.layers[l][j]]]])

LayerTableKeepingEntries(opts, lgi, nL, iBase) ==
    LET fresh == {l \in 0..(nL - 1) : l \notin DOMAIN lgi}
    IN  IF opts.preserveLayers
        THEN [table |-> [l \in (DOMAIN lgi) \cup (0..(nL - 1)) |->
                            IF l \in DOMAIN lgi THEN lgi[l]
                            ELSE iBase + Cardinality({m \in fresh : m <= l})],
              ids |-> iBase + Cardinality(fresh)]
        ELSE [table |-> lgi, ids |-> iBase]

\* the layer table after `layers.forEach((_, index) => layerGroupIds.set(index,
\* generateId()))` and the number of values generateId has returned by then
LayerTable(opts, lgi, nL, iBase) ==
    IF opts.preserveLayers
    THEN [table |-> [l \in (DOMAIN lgi) \cup (0..(nL - 1)) |->
                        IF l \in 0..(nL - 1) THEN iBase + l + 1 ELSE lgi[l]],
          ids |-> iBase + nL]
    ELSE [table |-> lgi, ids |-> iBase]

GroupIdsOfFirstLayer(opts, table, l) ==
    IF opts.preserveLayers /\ 0 \in DOMAIN table THEN <<table[0]>> ELSE <<>>

\* the groupIds of convertStroke(stroke, layerIndex): the id of the layer, if
\* layers are preserved and the table holds one
GroupIdsOf(opts, table, l) ==
    IF opts.preserveLayers /\ l \in DOMAIN table THEN <<table[l]>> ELSE <<>>

\* convert(document) of a converter with options opts, background image bg
\* and layer table lgi, when generateId has returned i0 values, generateSeed
\* s0 values and Date.now() is t.  The n-th value of generateId is n, the
\* n-th value of generateSeed is n
convert(doc, opts, bg, lgi, i0, s0, t) ==
    LET hasBg == bg # NoImage
        fileId == i0 + 1
        image == createBackgroundImageElement(fileId, bg.width, bg.height, i0 + 2, s0 + 1, t)
        iBase == IF hasBg THEN i0 + 2 ELSE i0
        sBase == IF hasBg THEN s0 + 1 ELSE s0
        nL == Len(doc.layers)
        lt == LayerTable(opts, lgi, nL, iBase)
        lgi2 == lt.table
        iStrokes == lt.ids
        keep(e) == /\ ~(~opts.includeEraser /\ isEraserStroke(e.stroke))
                   /\ Len(e.stroke.points) # 0
        kept == SelectSeq(FlatStrokes(doc), keep)
        elems == [k \in 1..Len(kept) |->
                     convertStroke(doc.version, kept[k].stroke, opts,
                                   GroupIdsOf(opts, lgi2, kept[k].layer), iStrokes + k, sBase + k, t)]
    IN  [output |->
            [type |-> "excalidraw", version |-> 2, source |-> "obsidian-remarkable-import",
             elements |-> (IF hasBg THEN <<image>> ELSE <<>>) \o elems,
             appState |-> [viewBackgroundColor |-> "#ffffff", currentItemFontFamily |-> 1],
             files |-> IF hasBg
                       THEN [f \in {fileId} |->
                               [mimeType |-> "image/png", id |-> fileId,
                                dataURL |-> bg.dataUrl, created |-> t]]
                       ELSE <<>>],
         layerGroupIds |-> lgi2,
         ids |-> iStrokes + Len(kept),
         seeds |-> sBase + Len(kept),
         converted |-> [k \in 1..Len(kept) |-> [layer |-> kept[k].layer, index |-> kept[k].index]]]

\* the option sets and the images of the model
ScaleVals == {<<1, 2>>, <<2, 1>>}
OptionSets ==
    [preserveLayers : BOOLEAN, includeEraser : BOOLEAN, strokeWidthScale : ScaleVals]
Images == {[dataUrl |-> "data:image/png;base64,AAAA",
            width |-> Fin(1404 * NumUnit), height |-> Fin(1872 * NumUnit)]}

\* new ExcalidrawConverter(conversionOptions), once the page is decoded
NewConverter ==
    /\ pc = "done" /\ result.kind = "success"
    /\ cpc = "none"
    /\ options' \in OptionSets
    /\ layerGroupIds' = <<>>
    /\ backgroundImage' = NoImage
    /\ cpc' = "ready"
    /\ UNCHANGED <<output, previous, converted, ids, seeds, now, parserVars, pluginVars, varuintVars,
                   batchVars>>

\* setBackgroundImage(dataUrl, width, height)
SetBackgroundImage ==
    /\ cpc = "ready"
    /\ backgroundImage = NoImage
    /\ backgroundImage' \in Images
    /\ UNCHANGED <<cpc, options, layerGroupIds, output, previous, converted, ids, seeds,
                   now, parserVars, pluginVars, varuintVars, batchVars>>

\* the state after a call of convert that started with layer table lgi and
\* generators that had returned i0 and s0 values
Converted(lgi, i0, s0, after) ==
    LET r == convert(result.document, options, backgroundImage, lgi, i0, s0, now)
    IN  /\ output' = r.output
        /\ previous' = output
        /\ layerGroupIds' = r.layerGroupIds
        /\ converted' = r.converted
        /\ ids' = r.ids
        /\ seeds' = r.seeds
        /\ now' = now + 1
        /\ cpc' = after
        /\ UNCHANGED <<options, backgroundImage, parserVars, pluginVars, varuintVars, batchVars>>

\* converter.convert(result.document)
Convert ==
    /\ cpc = "ready"
    /\ Converted(layerGroupIds, ids, seeds, "converted")

\* the same document converted once more by the same converter, with
\* generators that return the same values again
ConvertAgain ==
    /\ cpc = "converted"
    /\ Converted(layerGroupIds, 0, 0, "again")

\* the same document converted by a new converter with the same options and
\* image, with generators that return the same values again
ConvertAfresh ==
    /\ cpc = "converted"
    /\ Converted(<<>>, 0, 0, "afresh")

\* the decoded document without its last layer
ShorterDocument ==
    [result.document EXCEPT
        !.layers = SubSeq(result.document.layers, 1, Len(result.document.layers) - 1)]

\* another document, with one layer less, converted by the same converter;
\* the generators go on
ConvertOther ==
    /\ cpc = "converted"
    /\ Len(result.document.layers) >= 1
    /\ LET r == convert(ShorterDocument, options, backgroundImage, layerGroupIds, ids,
                        seeds, now)
       IN  /\ output' = r.output
           /\ previous' = output
           /\ layerGroupIds' = r.layerGroupIds
           /\ converted' = r.converted
           /\ ids' = r.ids
           /\ seeds' = r.seeds
           /\ now' = now + 1
           /\ cpc' = "other"
    /\ UNCHANGED <<options, backgroundImage, parserVars, pluginVars, varuintVars, batchVars>>

InitConvert ==
    ParserInit(ConvOrigins) /\ VaruintIdle /\ ConverterIdle /\ BatchIdle /\ PluginIdle

NextConvert ==
    \/ Parse
    \/ ParseV5
    \/ ParseLayer
    \/ ParseV5Return
    \/ ParseStroke
    \/ ParseLayerReturn
    \/ V6Block
    \/ V6Return
    \/ V6Tag
    \/ V6StrokeReturn
    \/ NewConverter
    \/ SetBackgroundImage
    \/ Convert
    \/ ConvertAgain
    \/ ConvertAfresh
    \/ ConvertOther

SpecConvert == InitConvert /\ [][NextConvert]_vars

------------------------------------------------------------------------------
(* readVaruint on its own: a call at offset vstart of a buffer of varuint    *)
(* bytes                                                                     *)

MaxVarBytes == 5    \* bytes in a buffer handed to readVaruint

\* 0x01, 0x08, 0x80 and 0xFF
VarByteVals == {1, 8, 128, 255}

\* the decoder at rest: no buffer is being decoded
ParserIdle ==
    /\ origin = Origin("none")
    /\ buffer = BufferOfBytes(<<>>)
    /\ cursor = 0
    /\ version = RMVersionUNKNOWN
    /\ pc = "idle"
    /\ result = NoResult
    /\ numLayers = 0
    /\ layerIndex = 0
    /\ layers = <<>>
    /\ numStrokes = 0
    /\ strokeI = 0
    /\ strokes = <<>>
    /\ blockStart = 0
    /\ blockEnd = 0
    /\ acc = NewAcc
    /\ hist = NoHist

InitVaruint ==
    /\ ParserIdle
    /\ ConverterIdle
    /\ BatchIdle
    /\ PluginIdle
    /\ \E bytes \in SeqsUpTo(VarByteVals, MaxVarBytes) :
          /\ vbuf = BufferOfBytes(bytes)
          /\ vstart \in 0..Min(1, Len(bytes))
    /\ vres = NoVaruint

\* one call of readVaruint with this.cursor = vstart
ReadVaruint ==
    /\ vres = NoVaruint
    /\ vres' = readVaruint(vbuf, vstart)
    /\ UNCHANGED <<vbuf, vstart, parserVars, pluginVars, converterVars, batchVars>>

NextVaruint == ReadVaruint

SpecVaruint == InitVaruint /\ [][NextVaruint]_vars

\* the offset after the first byte at or after c whose high bit is clear, or
\* the end of the buffer
RECURSIVE VaruintEnd(_, _)
VaruintEnd(buf, c) ==
    IF c >= ByteLength(buf) THEN ByteLength(buf)
    ELSE IF ByteAt(buf, c) < 128 THEN c + 1
    ELSE VaruintEnd(buf, c + 1)

\* the sum of (byte_i & 0x7F) * 128^(i - from) over the bytes from..to-1 of the
\* encoding that starts at c (byte_i is the byte at c + i)
RECURSIVE DigitSum(_, _, _, _)
DigitSum(buf, c, from, to) ==
    IF from >= to THEN 0
    ELSE (ByteAt(buf, c + from) % 128) + 128 * DigitSum(buf, c, from + 1, to)

\* C11: readVaruint consumes the bytes up to and including the first byte
\* whose high bit is clear (or to the end of the buffer) and returns the
\* non-negative sum of (byte_i & 0x7F) * 128^i over the consumed bytes.  The
\* sum is compared in two parts: its low 28 bits (the first four bytes) and
\* the rest (the bytes from the fifth on)
C11_VaruintIsBase128Sum ==
    vres # NoVaruint =>
        LET n == VaruintEnd(vbuf, vstart) - vstart
        IN  /\ vres.cursor = VaruintEnd(vbuf, vstart)
            /\ vres.value >= 0
            /\ vres.value % 268435456 = DigitSum(vbuf, vstart, 0, Min(n, 4))
            /\ vres.value \div 268435456 = DigitSum(vbuf, vstart, 4, n)

------------------------------------------------------------------------------
(* Batches: the pages of a document (syncDocument) and the files of a
   selection (triggerImport) *)

MaxPages == 3

\* what reading and decoding a page gives: the file cannot be read, parse()
\* returns success false, a document without strokes, a document with strokes
PageKinds == {"unreadable", "failed", "empty", "strokes"}

InitBatch ==
    /\ ParserIdle
    /\ VaruintIdle
    /\ ConverterIdle
    /\ PluginIdle
    /\ bpc \in {"syncDocument", "triggerImport"}
    /\ pages \in {ps \in SeqsUpTo(PageKinds, MaxPages) : Len(ps) # 0}
    /\ pageNum = 0
    /\ saved = {}
    /\ reported = {}

\* one round of the page loop of syncDocument: an unreadable page throws into
\* the empty catch, a failed or empty page is passed over with continue, a
\* page with strokes is converted and written
SyncPage ==
    /\ bpc = "syncDocument"
    /\ pageNum < Len(pages)
    /\ saved' = IF pages[pageNum + 1] = "strokes" THEN saved \cup {pageNum + 1} ELSE saved
    /\ pageNum' = pageNum + 1
    /\ UNCHANGED <<bpc, pages, reported, parserVars, pluginVars, varuintVars, converterVars>>

\* the end of the page loop: the metadata is written and syncDocument returns
\* 'new' or 'updated', which runSync counts; result.errors gets nothing
SyncDocumentReturn ==
    /\ bpc = "syncDocument"
    /\ pageNum = Len(pages)
    /\ bpc' = "synced"
    /\ UNCHANGED <<pages, pageNum, saved, reported, parserVars, pluginVars, varuintVars, converterVars>>

\* one round of the file loop of triggerImport: processFile throws for a file
\* that cannot be read or decoded, which ends the loop in the catch with the
\* notice "Import failed: ..." naming the file; any decoded file is converted
\* and created
ImportFile ==
    /\ bpc = "triggerImport"
    /\ pageNum < Len(pages)
    /\ IF pages[pageNum + 1] \in {"unreadable", "failed"}
       THEN /\ reported' = reported \cup {pageNum + 1}
            /\ bpc' = "importFailed"
            /\ UNCHANGED <<pageNum, saved>>
       ELSE /\ saved' = saved \cup {pageNum + 1}
            /\ pageNum' = pageNum + 1
            /\ UNCHANGED <<bpc, reported>>
    /\ UNCHANGED <<pages, parserVars, pluginVars, varuintVars, converterVars>>

\* the end of the file loop: the notice "Successfully imported n file(s)"
ImportComplete ==
    /\ bpc = "triggerImport"
    /\ pageNum = Len(pages)
    /\ bpc' = "imported"
    /\ UNCHANGED <<pages, pageNum, saved, reported, parserVars, pluginVars, varuintVars, converterVars>>

NextBatch ==
    \/ SyncPage
    \/ SyncDocumentReturn
    \/ ImportFile
    \/ ImportComplete

SpecBatch == InitBatch /\ [][NextBatch]_vars

\* the batch is over
BatchOver == bpc \in {"synced", "importFailed", "imported"}

\* every page of the batch can be read
AllReadable == \A p \in 1..Len(pages) : pages[p] # "unreadable"

\* C20: when a batch of readable pages is over, every page that can be decoded
\* was handled, whatever the pages before it gave, every page with strokes was
\* written, and every page whose decoding failed was reported
C20_FailedPageIndependent ==
    (BatchOver /\ AllReadable) =>
        /\ \A p \in 1..Len(pages) : pages[p] \in {"empty", "strokes"} => p <= pageNum
        /\ \A p \in 1..Len(pages) : pages[p] = "strokes" => p \in saved
        /\ \A p \in 1..Len(pages) : pages[p] = "failed" => p \in reported

(* Properties of the converter *)

\* convert has returned
HasOutput == cpc \in {"converted", "again", "afresh"}

IsFreedraw(e) == e.type = "freedraw"
IsImage(e) == e.type = "image"

\* the freehand elements of a returned document, in their order
FreedrawOf(out) == SelectSeq(out.elements, IsFreedraw)
Freedraw == FreedrawOf(output)

\* the decoded stroke the k-th freehand element was made from
SourceStroke(k) ==
    result.document.layers[converted[k].layer + 1][converted[k].index]

DocVersion == result.document.version

\* C12: the decoder stores the pen and color value of every stroke as it is
\* in the file, whatever the value, and decoding does not fail; the converter
\* gives every stroke whose pen is outside the known set the fallback style
\* (multiplier 1, pressure-sensitive, opacity 100, roughness 1, solid, no
\* simulated pressure) and every stroke whose color is outside the known set
\* the color black, and returns a document
C12_OpenPenAndColor ==
    /\ (Done /\ origin.family = "conv") =>
          /\ result.kind = "success"
          /\ Len(result.document.layers) = Len(origin.doc)
          /\ \A l \in 1..Len(origin.doc) :
                /\ Len(result.document.layers[l]) = Len(origin.doc[l])
                /\ \A j \in 1..Len(origin.doc[l]) :
                      /\ result.document.layers[l][j].pen = ConvStrokeMenu[origin.doc[l][j]].pen
                      /\ result.document.layers[l][j].color =
                            ConvStrokeMenu[origin.doc[l][j]].color
    /\ HasOutput =>
          /\ output.type = "excalidraw"
          /\ Len(Freedraw) = Len(converted)
          /\ \A k \in 1..Len(Freedraw) :
                LET st == SourceStroke(k)
                    e == Freedraw[k]
                IN  /\ st.pen \notin KnownPens =>
                          /\ e.strokeWidth =
                                calculateStrokeWidth(WidthOf(DocVersion, st), <<1, 1>>,
                                                     options.strokeWidthScale)
                          /\ e.pressures =
                                [i \in 1..Len(st.points) |->
                                    normalizePressure(PressureOf(DocVersion, st.points[i]))]
                          /\ e.opacity = 100
                          /\ e.roughness = 1
                          /\ e.strokeStyle = "solid"
                          /\ e.simulatePressure = FALSE
                    /\ st.color \notin 0..8 => e.strokeColor = "#000000"

\* a stroke with pen 99 and color 9 and a stroke with FF FF FF FF as pen and
\* color have been converted
C12_Witness ==
    /\ HasOutput
    /\ origin.family = "conv"
    /\ \E k \in 1..Len(Freedraw) :
          /\ SourceStroke(k).pen = 99 /\ SourceStroke(k).color = 9
          /\ Freedraw[k].roughness = 1 /\ Freedraw[k].strokeColor = "#000000"
    /\ \E k \in 1..Len(Freedraw) :
          /\ SourceStroke(k).pen = -1 /\ SourceStroke(k).color = -1
          /\ Freedraw[k].roughness = 1 /\ Freedraw[k].strokeColor = "#000000"

\* a number between lo and hi (NaN is not)
Within(x, lo, hi) == x.k = "fin" /\ lo <= x.v /\ x.v <= hi

\* clamp(x, 1, 16)
Clamp1To16(x) ==
    IF NumLess(x, Fin(NumUnit)) THEN Fin(NumUnit)
    ELSE IF NumLess(Fin(16 * NumUnit), x) THEN Fin(16 * NumUnit)
    ELSE x

\* baseWidth * multiplier * scale of the stroke st
ScaledWidth(st) ==
    NumTimes(NumTimes(WidthOf(DocVersion, st), getPenCharacteristics(st.pen).baseMultiplier),
             options.strokeWidthScale)

\* C13: the strokeWidth of every freehand element is
\* clamp(baseWidth * multiplier * scale, 1, 16), it is not below 1 and not
\* above 16, and of two strokes with the same pen the one with the larger
\* base width does not get the smaller strokeWidth
C13_StrokeWidthClamped ==
    HasOutput =>
        /\ \A k \in 1..Len(Freedraw) :
              /\ Freedraw[k].strokeWidth = Clamp1To16(ScaledWidth(SourceStroke(k)))
              /\ Within(Freedraw[k].strokeWidth, NumUnit, 16 * NumUnit)
        /\ \A k1, k2 \in 1..Len(Freedraw) :
              (/\ SourceStroke(k1).pen = SourceStroke(k2).pen
               /\ NumLess(WidthOf(DocVersion, SourceStroke(k1)),
                          WidthOf(DocVersion, SourceStroke(k2)))) =>
                  ~NumLess(Freedraw[k2].strokeWidth, Freedraw[k1].strokeWidth)

\* the decoded x and y of the i-th point of the stroke st
PointX(st, i) == F32Value(st.points[i].x)
PointY(st, i) == F32Value(st.points[i].y)

\* m is the smallest of f[1..n]
IsSmallest(m, f, n) ==
    /\ \E i \in 1..n : f[i] = m
    /\ \A i \in 1..n : ~NumLess(f[i], m)

\* m is the largest of f[1..n]
IsLargest(m, f, n) ==
    /\ \E i \in 1..n : f[i] = m
    /\ \A i \in 1..n : ~NumLess(m, f[i])

\* the k-th freehand element has the bounding box of its stroke and points
\* relative to the corner of the box
BoundingBoxOf(k) ==
    LET e == Freedraw[k]
        st == SourceStroke(k)
        n == Len(st.points)
        xs == [i \in 1..n |-> PointX(st, i)]
        ys == [i \in 1..n |-> PointY(st, i)]
    IN  /\ Len(e.points) = n
        /\ IsSmallest(e.x, xs, n)
        /\ IsSmallest(e.y, ys, n)
        /\ \E m \in {xs[i] : i \in 1..n} : IsLargest(m, xs, n) /\ e.width = NumSub(m, e.x)
        /\ \E m \in {ys[i] : i \in 1..n} : IsLargest(m, ys, n) /\ e.height = NumSub(m, e.y)
        /\ \A i \in 1..n : e.points[i] = <<NumSub(xs[i], e.x), NumSub(ys[i], e.y)>>
        /\ \E i \in 1..n : e.points[i][1] = Fin(0)
        /\ \E i \in 1..n : e.points[i][2] = Fin(0)
        /\ e.width.k = "fin" /\ e.height.k = "fin"
        /\ \A i \in 1..n : /\ Within(e.points[i][1], 0, e.width.v)
                           /\ Within(e.points[i][2], 0, e.height.v)

\* C14: every freehand element has x and y equal to the smallest x and y of
\* its stroke's points, width and height equal to largest minus smallest,
\* every point stored relative to (x, y), smallest relative x and smallest
\* relative y exactly 0, and every relative point inside
\* [0, width] x [0, height]
C14_BoundingBox ==
    HasOutput => \A k \in 1..Len(Freedraw) : BoundingBoxOf(k)

\* the strokes of the decoded document that have points and, unless erasers
\* are included, a pen other than 4 and 16, in document order
ExpectedSources ==
    LET wanted(e) == /\ Len(e.stroke.points) # 0
                     /\ (options.includeEraser \/ e.stroke.pen \notin {4, 16})
        w == SelectSeq(FlatStrokes(result.document), wanted)
    IN  [k \in 1..Len(w) |-> [layer |-> w[k].layer, index |-> w[k].index]]

\* C15: without includeEraser no freehand element comes from a stroke with pen
\* 4 or 16, and a document of eraser strokes only yields no freehand element;
\* with includeEraser every eraser stroke with points yields an element, with
\* the style of its pen like any other stroke; in both cases the elements are
\* those of the other strokes with points, in document order
C15_EraserDropped ==
    HasOutput =>
        /\ converted = ExpectedSources
        /\ Len(Freedraw) = Len(converted)
        /\ ~options.includeEraser =>
              \A k \in 1..Len(Freedraw) : SourceStroke(k).pen \notin {4, 16}
        /\ \A k \in 1..Len(Freedraw) :
              LET pen == SourceStroke(k).pen
              IN  pen \in {4, 16} =>
                     /\ options.includeEraser
                     /\ Freedraw[k].opacity = PEN_CHARACTERISTICS[pen].opacity
                     /\ Freedraw[k].roughness = PEN_CHARACTERISTICS[pen].roughness

\* a document of two layers, each an eraser stroke (pen 4) and an eraser
\* stroke (pen 16), converted without includeEraser with an image attached:
\* the image is the only element
C15_Witness ==
    /\ HasOutput
    /\ origin.family = "conv" /\ origin.doc = <<<<2, 3>>, <<2, 3>>>>
    /\ ~options.includeEraser
    /\ backgroundImage # NoImage
    /\ Len(output.elements) = 1
    /\ Len(Freedraw) = 0

\* C16: with preserveLayers every freehand element has exactly one group id,
\* two elements have the same one exactly when their strokes are in the same
\* layer, and one id per layer is generated in each call of convert (next to
\* the two of an attached image and the one of each element); without
\* preserveLayers every element has no group id
C16_LayerGroups ==
    HasOutput =>
        IF options.preserveLayers
        THEN /\ \A k \in 1..Len(Freedraw) : Len(Freedraw[k].groupIds) = 1
             /\ \A k1, k2 \in 1..Len(Freedraw) :
                   (Freedraw[k1].groupIds = Freedraw[k2].groupIds)
                       <=> (converted[k1].layer = converted[k2].layer)
             /\ ids = (IF backgroundImage # NoImage THEN 2 ELSE 0)
                          + Len(result.document.layers) + Len(Freedraw)
             /\ \A k \in 1..Len(Freedraw) :
                   /\ converted[k].layer \in DOMAIN layerGroupIds
                   /\ Freedraw[k].groupIds = <<layerGroupIds[converted[k].layer]>>
        ELSE /\ \A k \in 1..Len(output.elements) : output.elements[k].groupIds = <<>>
             /\ ids = (IF backgroundImage # NoImage THEN 2 ELSE 0) + Len(Freedraw)

\* two layers with two converted strokes each, converted with preserveLayers:
\* the elements of a layer share a group id, those of different layers do not
C16_Witness ==
    /\ HasOutput
    /\ options.preserveLayers
    /\ Len(result.document.layers) = 2
    /\ Len(Freedraw) = 4
    /\ converted[1].layer = 0 /\ converted[2].layer = 0
    /\ converted[3].layer = 1 /\ converted[4].layer = 1
    /\ Freedraw[1].groupIds = Freedraw[2].groupIds
    /\ Freedraw[3].groupIds = Freedraw[4].groupIds
    /\ Freedraw[1].groupIds # Freedraw[3].groupIds

\* C17: the pressures of every freehand element are as many as its points;
\* for a pen that is not pressure-sensitive they are all 0.5, otherwise the
\* i-th is the decoded pressure of the i-th point clamped to [0, 1], a number
\* of at least 0 and at most 1
C17_Pressures ==
    HasOutput =>
        \A k \in 1..Len(Freedraw) :
            LET e == Freedraw[k]
                st == SourceStroke(k)
            IN  /\ Len(e.pressures) = Len(e.points)
                /\ Len(e.pressures) = Len(st.points)
                /\ \A i \in 1..Len(e.pressures) :
                      IF getPenCharacteristics(st.pen).pressureSensitive
                      THEN LET p == PressureOf(DocVersion, st.points[i])
                           IN  /\ Within(e.pressures[i], 0, NumUnit)
                               /\ NumLess(p, Fin(0)) => e.pressures[i] = Fin(0)
                               /\ NumLess(Fin(NumUnit), p) => e.pressures[i] = Fin(NumUnit)
                               /\ Within(p, 0, NumUnit) => e.pressures[i] = p
                      ELSE e.pressures[i] = Ratio(1, 2)

\* the image elements of the returned document
ImagesOf(out) == SelectSeq(out.elements, IsImage)

\* C18: with an image attached the first element of the returned document is
\* the only image element, locked, at (0, 0), with the width and height of
\* the image, and files has exactly one entry, under that element's fileId,
\* holding the image; with none attached there is no image element and files
\* is empty
C18_BackgroundImage ==
    HasOutput =>
        IF backgroundImage # NoImage
        THEN /\ Len(output.elements) >= 1
             /\ IsImage(output.elements[1])
             /\ Len(ImagesOf(output)) = 1
             /\ output.elements[1].locked
             /\ output.elements[1].x = Fin(0) /\ output.elements[1].y = Fin(0)
             /\ output.elements[1].width = backgroundImage.width
             /\ output.elements[1].height = backgroundImage.height
             /\ DOMAIN output.files = {output.elements[1].fileId}
             /\ output.files[output.elements[1].fileId].id = output.elements[1].fileId
             /\ output.files[output.elements[1].fileId].dataURL = backgroundImage.dataUrl
        ELSE /\ Len(ImagesOf(output)) = 0
             /\ DOMAIN output.files = {}

\* an image was attached and two strokes were converted: three elements, the
\* image first
C18_Witness ==
    /\ HasOutput
    /\ backgroundImage # NoImage
    /\ Len(output.elements) = 3
    /\ IsImage(output.elements[1])
    /\ Len(Freedraw) = 2

\* a returned document without the fields that hold the time of the call:
\* versionNonce and updated of the elements, created of the files
WithoutTime(out) ==
    [elements |-> [k \in 1..Len(out.elements) |->
                      [f \in (DOMAIN out.elements[k]) \ {"versionNonce", "updated"} |->
                          out.elements[k][f]]],
     files |-> [id \in DOMAIN out.files |->
                   [f \in (DOMAIN out.files[id]) \ {"created"} |-> out.files[id][f]]],
     type |-> out.type, version |-> out.version, source |-> out.source,
     appState |-> out.appState]

\* C19: a document converted a second time with the same options and image,
\* by the same converter or by a new one, with id and seed generators that
\* return the same values again, yields the same document as the first time
\* except for versionNonce, updated and created
C19_Repeatable ==
    cpc \in {"again", "afresh"} => WithoutTime(output) = WithoutTime(previous)

\* the second conversion by the same converter of two layers with an image,
\* with preserveLayers: the documents differ, in the time fields only
C19_Witness ==
    /\ cpc = "again"
    /\ options.preserveLayers
    /\ backgroundImage # NoImage
    /\ Len(result.document.layers) = 2
    /\ Len(Freedraw) >= 2
    /\ output # previous
    /\ output.elements[1].updated # previous.elements[1].updated

------------------------------------------------------------------------------
(* Further properties of the decoder *)

\* the strokes ss are what the buffer holds from offset c on: each stroke's
\* pen word and point count word are those of the file and its points are
\* the records that follow, in their order
RECURSIVE StrokesAgree(_, _, _, _)
StrokesAgree(buf, v, c, ss) ==
    \/ ss = <<>>
    \/ LET st == Head(ss)
           n == Len(st.points)
           body == c + StrokeHeaderSize(v)
       IN  /\ body + V5_POINT_SIZE * n <= ByteLength(buf)
           /\ Int32At(buf, body - 4) = n
           /\ Int32At(buf, c) = st.pen
           /\ \A j \in 1..n :
                 /\ st.points[j].x = Float32At(buf, body + V5_POINT_SIZE * (j - 1))
                 /\ st.points[j].pressure = Float32At(buf, body + V5_POINT_SIZE * (j - 1) + 20)
           /\ StrokesAgree(buf, v, body + V5_POINT_SIZE * n, Tail(ss))

\* the offset after the strokes ss that begin at c
RECURSIVE StrokesEnd(_, _, _)
StrokesEnd(v, c, ss) ==
    IF ss = <<>> THEN c
    ELSE StrokesEnd(v, c + StrokeHeaderSize(v) + V5_POINT_SIZE * Len(Head(ss).points), Tail(ss))

\* the layers ls are what the buffer holds from offset c on: each layer has
\* the number of strokes its count word declares
RECURSIVE LayersAgree(_, _, _, _)
LayersAgree(buf, v, c, ls) ==
    \/ ls = <<>>
    \/ /\ c + 4 <= ByteLength(buf)
       /\ Int32At(buf, c) = Len(Head(ls))
       /\ StrokesAgree(buf, v, c + 4, Head(ls))
       /\ LayersAgree(buf, v, StrokesEnd(v, c + 4, Head(ls)), Tail(ls))

\* C22: a successful revision 3/5 decode gives a document with the declared
\* number of layers, each with its declared number of strokes in file order,
\* each stroke with its declared number of points in file order, and every
\* stroke of layer i has layerIndex i, an index of a layer of the document
C22_DeclaredShape ==
    (Done /\ result.kind = "success" /\ version \in {RMVersionV3, RMVersionV5}) =>
        LET ls == result.document.layers
            hs == HEADER_SIZES(version)
        IN  /\ Int32At(buffer, hs) = Len(ls)
            /\ LayersAgree(buffer, version, hs + 4, ls)
            /\ \A l \in 1..Len(ls) : \A k \in 1..Len(ls[l]) :
                  /\ ls[l][k].layerIndex = l - 1
                  /\ ls[l][k].layerIndex \in 0..(Len(ls) - 1)
            /\ (origin.family = "v5" /\ origin.ov = NoOverride /\ origin.cut = 0) =>
                  /\ Len(ls) = Len(origin.doc)
                  /\ \A l \in 1..Len(ls) :
                        /\ Len(ls[l]) = Len(origin.doc[l])
                        /\ \A k \in 1..Len(ls[l]) :
                              Len(ls[l][k].points) = origin.doc[l][k]

\* a revision 5 file of two layers of two strokes of one point has been decoded
C22_Witness ==
    /\ Done
    /\ result.kind = "success"
    /\ version = RMVersionV5
    /\ origin.family = "v5"
    /\ Len(result.document.layers) = 2
    /\ Len(result.document.layers[2]) = 2
    /\ Len(result.document.layers[2][2].points) = 1
    /\ result.document.layers[2][2].layerIndex = 1

\* where the field whose tag is at offset c ends by its wire type: 1, 4 or 8
\* bytes, 4 + declared length, or two varuints after the tag; -1 if the tag
\* has none of the five wire types or the declared length cannot be read
ImpliedEnd(buf, c) ==
    LET tagRead == readVaruint(buf, c)
        type == TagType(tagRead.value)
        p == tagRead.cursor
    IN  IF type = TagByte1 THEN p + 1
        ELSE IF type = TagByte4 THEN p + 4
        ELSE IF type = TagByte8 THEN p + 8
        ELSE IF type = TagLength4
             THEN IF InBounds(buf, p, 4) THEN AdvanceBy(p + 4, Uint32At(buf, p)) ELSE -1
        ELSE IF type = TagID THEN skipCrdtId(buf, p)
        ELSE -1

\* C23: in a line-definition block, after every tag with one of the five wire
\* types the next tag is read where the field ends by its wire type, or the
\* block is over there, whatever the field index
C23_CursorFollowsWireType ==
    (Done /\ origin.family \in {"v6tags", "v6odd"}) =>
        \A c \in hist.tagAt :
            LET e == ImpliedEnd(buffer, c)
            IN  e = -1 \/ e \in hist.tagAt \/ e >= ByteLength(buffer)

\* the loop variables of a decode in progress are within the validated counts
\* and every tag was read inside the buffer
LoopsWithinCounts ==
    /\ pc \in {"parseLayer", "parseStroke"} =>
          /\ 0 <= layerIndex /\ layerIndex <= numLayers
          /\ numLayers <= MaxLayerCount
    /\ pc = "parseStroke" =>
          /\ layerIndex < numLayers
          /\ 0 <= strokeI /\ strokeI <= numStrokes
          /\ numStrokes <= MaxStrokeCount
    /\ \A c \in hist.tagAt :
          /\ readVaruint(buffer, c).cursor > c
          /\ readVaruint(buffer, c).cursor <= ByteLength(buffer)

\* every pass of a loop of the decoder moves on
LoopStep ==
    /\ (pc = "parseV6" /\ pc' = "parseV6") => cursor' > cursor
    /\ (pc = "parseV6" /\ pc' = "parseV6Stroke") =>
          /\ blockStart' = cursor
          /\ cursor' > blockStart'
          /\ blockEnd' > blockStart'
    /\ (pc = "parseV6Stroke" /\ pc' = "parseV6") => cursor' > blockStart
    /\ (pc = "parseV6Stroke" /\ pc' = "parseV6Stroke") => cursor' > cursor
    /\ (pc = "parseStroke" /\ pc' = "parseStroke") =>
          /\ strokeI < numStrokes
          /\ strokeI' = strokeI + 1
    /\ (pc = "parseStroke" /\ pc' = "parseLayer") => layerIndex' = layerIndex + 1

\* what is left of a decode, as a triple that is compared from the left: the
\* part of parse() it is in; the bytes after the block scan position, or the
\* layers to go; the bytes to the end of the block, or the strokes to go
Remaining ==
    IF pc = "parse" THEN <<3, 0, 0>>
    ELSE IF pc = "parseV5" THEN <<2, 0, 0>>
    ELSE IF pc = "parseLayer" THEN <<1, numLayers - layerIndex, MaxStrokeCount + 2>>
    ELSE IF pc = "parseStroke" THEN <<1, numLayers - layerIndex, (numStrokes - strokeI) + 1>>
    ELSE IF pc = "parseV6"
         THEN <<1, IF cursor < ByteLength(buffer) THEN ByteLength(buffer) - cursor ELSE 0, 0>>
    ELSE IF pc = "parseV6Stroke"
         THEN <<1, ByteLength(buffer) - blockEnd,
                (IF cursor < blockEnd THEN blockEnd - cursor ELSE 0) + 1>>
    ELSE <<0, 0, 0>>

LexLess(a, b) ==
    \/ a[1] < b[1]
    \/ a[1] = b[1] /\ a[2] < b[2]
    \/ a[1] = b[1] /\ a[2] = b[2] /\ a[3] < b[3]

\* C26: every decode ends: each pass of the revision-6 block scan leaves the
\* cursor beyond the start of its block, each pass of the tag loop consumes at
\* least one byte, readVaruint stops at the end of the buffer, the revision
\* 3/5 loops run at most the validated counts, and every step of a decode
\* makes what is left of it smaller, which is never less than nothing
C26_DecodeTerminates ==
    /\ [](LoopsWithinCounts /\ \A i \in 1..3 : Remaining[i] >= 0)
    /\ [][LoopStep /\ LexLess(Remaining', Remaining)]_vars

\* a revision-6 decode that refused a block, decoded a stroke and returned
C26_Witness ==
    /\ Done
    /\ origin.family = "v6blocks"
    /\ Len(origin.blocks) = 3
    /\ origin.blocks[1] = 5
    /\ Len(hist.pushedAt) >= 1
    /\ hist.steps >= 6

------------------------------------------------------------------------------
(* Further properties of the converter *)

\* the stroke at position index of layer number layer (from 0) yields an element
YieldsElement(layer, index) ==
    LET st == result.document.layers[layer + 1][index]
    IN  /\ Len(st.points) # 0
        /\ (options.includeEraser \/ st.pen \notin {4, 16})

\* C24: the freehand elements are, in their order, the conversions of the
\* strokes of the document taken layer by layer and, in a layer, stroke by
\* stroke; a stroke without points yields no element and no failure, a filtered
\* eraser stroke yields none, every other stroke yields exactly one; they
\* follow the image element, if there is one
C24_ElementsInDocumentOrder ==
    HasOutput =>
        /\ output.type = "excalidraw"
        /\ Len(Freedraw) = Len(converted)
        /\ \A k \in 1..Len(converted) :
              /\ converted[k].layer + 1 \in 1..Len(result.document.layers)
              /\ converted[k].index \in 1..Len(result.document.layers[converted[k].layer + 1])
              /\ YieldsElement(converted[k].layer, converted[k].index)
        /\ \A l \in 1..Len(result.document.layers) :
              \A j \in 1..Len(result.document.layers[l]) :
                  YieldsElement(l - 1, j) =>
                      \E k \in 1..Len(converted) : converted[k] = [layer |-> l - 1, index |-> j]
        /\ \A k1, k2 \in 1..Len(converted) :
              k1 < k2 =>
                  \/ converted[k1].layer < converted[k2].layer
                  \/ /\ converted[k1].layer = converted[k2].layer
                     /\ converted[k1].index < converted[k2].index
        /\ \A k \in 1..Len(Freedraw) :
              Freedraw[k] = convertStroke(DocVersion, SourceStroke(k), options,
                                          Freedraw[k].groupIds, Freedraw[k].id,
                                          Freedraw[k].seed, Freedraw[k].updated)
        /\ \A k \in 1..Len(output.elements) :
              IsFreedraw(output.elements[k]) =>
                  output.elements[k] = Freedraw[k - Len(ImagesOf(output))]

\* two layers, each a stroke of two points and a stroke without points, have
\* been converted: two elements, the first of layer 0, the second of layer 1
C24_Witness ==
    /\ HasOutput
    /\ origin.family = "conv" /\ origin.doc = <<<<1, 7>>, <<1, 7>>>>
    /\ Len(Freedraw) = 2
    /\ converted = <<[layer |-> 0, index |-> 1], [layer |-> 1, index |-> 1]>>
    /\ Len(result.document.layers[1][2].points) = 0

\* the document of the last call of convert
LastDocument == IF cpc = "other" THEN ShorterDocument ELSE result.document

\* the number of values generateId had returned when the last call of convert
\* on a converter that has converted twice began
IdsBeforeLastCall ==
    (IF backgroundImage # NoImage THEN 2 ELSE 0)
        + (IF options.preserveLayers THEN Len(result.document.layers) ELSE 0)
        + Len(FreedrawOf(previous))

\* C25: after a call of convert the layer table holds entries for the layers
\* of the document of that call only, and after a second call on the same
\* converter no group id of the output and no entry of the table was generated
\* during the first call
C25_LayerTableScopedToCall ==
    (HasOutput \/ cpc = "other") =>
        /\ DOMAIN layerGroupIds \subseteq 0..(Len(LastDocument.layers) - 1)
        /\ cpc = "other" =>
              /\ \A k \in 1..Len(Freedraw) :
                    \A g \in 1..Len(Freedraw[k].groupIds) :
                        Freedraw[k].groupIds[g] > IdsBeforeLastCall
              /\ \A l \in DOMAIN layerGroupIds : layerGroupIds[l] > IdsBeforeLastCall

------------------------------------------------------------------------------
(* syncDocument: one document, its sidecar .sync-meta.json and its page files *)

MaxDocPages == 2    \* pages of the document handed to syncDocument
MaxModified == 2    \* the largest lastModified of the document
MaxCalls == 3       \* calls of syncDocument in one behaviour

\* the sidecar after JSON.parse: absent, not parsable, or { lastModified, uuid }
Meta(n) == [kind |-> "meta", lastModified |-> n]
CorruptMeta == [kind |-> "corrupt"]
Sidecars == {NoMeta, CorruptMeta} \cup {Meta(n) : n \in 0..MaxModified}

InitSync ==
    /\ ParserIdle
    /\ VaruintIdle
    /\ ConverterIdle
    /\ BatchIdle
    /\ TimerIdle
    /\ RaceIdle
    /\ PathIdle
    /\ syncPc = "idle"
    /\ syncDoc \in [lastModified : 0..MaxModified, pages : SeqsUpTo(PageKinds, MaxDocPages)]
    /\ forceReimport = FALSE
    /\ sidecar \in Sidecars
    /\ existingMeta = NoMeta
    /\ docPageNum = 0
    /\ pageFiles \in SUBSET (1..Len(syncDoc.pages))
    /\ written = {}
    /\ returned = "none"
    /\ syncedAt = -1
    /\ calls = 0

\* existingMeta after the read of the sidecar: null when the file is absent or
\* JSON.parse throws
ReadMeta(file) == IF file.kind = "meta" THEN file ELSE NoMeta

\* existingMeta.lastModified >= doc.lastModified
UpToDateStrictlyNewer(meta, d) == meta.lastModified > d.lastModified
UpToDate(meta, d) == meta.lastModified >= d.lastModified

\* the skip test of syncDocument
NotModified(force, meta, d) == ~force /\ meta # NoMeta /\ UpToDate(meta, d)

\* a call of syncDocument up to the page loop: a document without pages and a
\* document that was not modified since the sidecar was written return
\* 'skipped'
SyncDocument(force) ==
    /\ syncPc \in {"idle", "returned"}
    /\ calls < MaxCalls
    /\ calls' = calls + 1
    /\ forceReimport' = force
    /\ written' = {}
    /\ docPageNum' = 0
    /\ IF Len(syncDoc.pages) = 0
       THEN /\ returned' = "skipped"
            /\ syncPc' = "returned"
            /\ UNCHANGED existingMeta
       ELSE /\ existingMeta' = ReadMeta(sidecar)
            /\ IF NotModified(force, ReadMeta(sidecar), syncDoc)
               THEN returned' = "skipped" /\ syncPc' = "returned"
               ELSE returned' = "none" /\ syncPc' = "pages"
    /\ UNCHANGED <<syncDoc, sidecar, pageFiles, syncedAt, outsideSync>>

\* one round of the page loop: an unreadable page throws into the empty catch,
\* a failed or empty page is passed over, a page with strokes is converted and
\* its file written or created
SyncDocumentPage ==
    /\ syncPc = "pages"
    /\ docPageNum < Len(syncDoc.pages)
    /\ docPageNum' = docPageNum + 1
    /\ IF syncDoc.pages[docPageNum + 1] = "strokes"
       THEN /\ pageFiles' = pageFiles \cup {docPageNum + 1}
            /\ written' = written \cup {docPageNum + 1}
       ELSE UNCHANGED <<pageFiles, written>>
    /\ UNCHANGED <<syncPc, syncDoc, forceReimport, sidecar, existingMeta, returned, syncedAt,
                   calls, outsideSync>>

\* after the page loop: the sidecar is written and 'updated' or 'new' returned
SyncDocumentWriteMeta ==
    /\ syncPc = "pages"
    /\ docPageNum = Len(syncDoc.pages)
    /\ sidecar' = Meta(syncDoc.lastModified)
    /\ returned' = IF existingMeta # NoMeta THEN "updated" ELSE "new"
    /\ syncedAt' = syncDoc.lastModified
    /\ syncPc' = "returned"
    /\ UNCHANGED <<syncDoc, forceReimport, existingMeta, docPageNum, pageFiles, written,
                   calls, outsideSync>>

\* between two runs the document is changed on the device: discoverDocuments
\* reads a larger lastModified
SourceModified ==
    /\ syncPc \in {"idle", "returned"}
    /\ \E n \in 0..MaxModified :
        /\ n > syncDoc.lastModified
        /\ syncDoc' = [syncDoc EXCEPT !.lastModified = n]
    /\ UNCHANGED <<syncPc, forceReimport, sidecar, existingMeta, docPageNum, pageFiles,
                   written, returned, syncedAt, calls, outsideSync>>

NextSync ==
    \/ \E force \in BOOLEAN : SyncDocument(force)
    \/ SyncDocumentPage
    \/ SyncDocumentWriteMeta
    \/ SourceModified

SpecSync == InitSync /\ [][NextSync]_vars

\* a step that is a call of syncDocument without forceReimport
IncrementalCall == calls' = calls + 1 /\ ~forceReimport'

\* C21: a call without forceReimport for a document whose sidecar holds a
\* lastModified at or above the document's writes no page file and returns
\* 'skipped'; after a call that returned 'new' or 'updated', a call for the
\* unchanged document returns 'skipped'; a call for a document whose
\* lastModified has grown since imports it again and returns 'updated'
C21_IncrementalSync ==
    /\ [][(IncrementalCall /\ sidecar.kind = "meta"
            /\ sidecar.lastModified >= syncDoc.lastModified)
          => (syncPc' = "returned" /\ returned' = "skipped"
               /\ pageFiles' = pageFiles /\ sidecar' = sidecar)]_vars
    /\ [][(IncrementalCall /\ syncedAt = syncDoc.lastModified)
          => (syncPc' = "returned" /\ returned' = "skipped")]_vars
    /\ [][(IncrementalCall /\ syncedAt >= 0 /\ syncDoc.lastModified > syncedAt)
          => (syncPc' = "pages" /\ existingMeta' # NoMeta)]_vars
    /\ [][(syncPc = "pages" /\ syncPc' = "returned" /\ existingMeta # NoMeta)
          => (returned' = "updated" /\ sidecar' = Meta(syncDoc.lastModified))]_vars

\* a document was imported, left alone and skipped, then modified and imported
\* again as 'updated'
C21_Witness ==
    /\ calls = 3
    /\ syncPc = "returned"
    /\ returned = "updated"
    /\ ~forceReimport
    /\ syncedAt = MaxModified
    /\ written # {}

\* C28: a call of syncDocument that returns 'new' or 'updated' has written at
\* least one page in that call
C28_SyncedOnlyWithPage ==
    (syncPc = "returned" /\ returned \in {"new", "updated"}) => written # {}

------------------------------------------------------------------------------
(* The auto-sync interval timer of the plugin *)

MaxTimers == 8      \* calls of setInterval in one behaviour

InitTimer ==
    /\ ParserIdle
    /\ VaruintIdle
    /\ ConverterIdle
    /\ BatchIdle
    /\ SyncIdle
    /\ RaceIdle
    /\ PathIdle
    /\ autoSync \in BOOLEAN
    /\ autoSyncInterval = 0
    /\ timers = {}
    /\ timerIds = 0
    /\ lastCall = "none"

\* the live timers after stopAutoSync: clearInterval(this.autoSyncInterval)
\* when the handle is set
AfterClearKeepingTimer(live, handle) == live
AfterClear(live, handle) == IF handle # 0 THEN live \ {handle} ELSE live

\* startAutoSync(): stopAutoSync(), then setInterval and the handle kept
StartTimer ==
    /\ timerIds < MaxTimers
    /\ timerIds' = timerIds + 1
    /\ timers' = AfterClear(timers, autoSyncInterval) \cup {timerIds + 1}
    /\ autoSyncInterval' = timerIds + 1

\* stopAutoSync(): the timer of the handle is cleared and the handle set to null
StopTimer ==
    /\ timers' = AfterClear(timers, autoSyncInterval)
    /\ autoSyncInterval' = 0
    /\ UNCHANGED timerIds

\* onload(): loadSettings, then startAutoSync when settings.autoSync is set
onload ==
    /\ autoSync' \in BOOLEAN
    /\ IF autoSync' THEN StartTimer ELSE UNCHANGED <<autoSyncInterval, timers, timerIds>>
    /\ lastCall' = "onload"
    /\ UNCHANGED outsideTimer

startAutoSync ==
    /\ StartTimer
    /\ lastCall' = "startAutoSync"
    /\ UNCHANGED <<autoSync, outsideTimer>>

stopAutoSync ==
    /\ StopTimer
    /\ lastCall' = "stopAutoSync"
    /\ UNCHANGED <<autoSync, outsideTimer>>

\* restartAutoSync(): startAutoSync when settings.autoSync is set
restartAutoSync ==
    /\ IF autoSync THEN StartTimer ELSE UNCHANGED <<autoSyncInterval, timers, timerIds>>
    /\ lastCall' = "restartAutoSync"
    /\ UNCHANGED <<autoSync, outsideTimer>>

\* onunload(): stopAutoSync
onunload ==
    /\ StopTimer
    /\ lastCall' = "onunload"
    /\ UNCHANGED <<autoSync, outsideTimer>>

\* the toggle of the settings tab assigns settings.autoSync (and then calls
\* startAutoSync or stopAutoSync)
SetAutoSync ==
    /\ autoSync' = ~autoSync
    /\ UNCHANGED <<autoSyncInterval, timers, timerIds, lastCall, outsideTimer>>

NextTimer ==
    \/ onload
    \/ startAutoSync
    \/ stopAutoSync
    \/ restartAutoSync
    \/ onunload
    \/ SetAutoSync

SpecTimer == InitTimer /\ [][NextTimer]_vars

\* C27: at most one interval timer is live; none is live after stopAutoSync
\* or onunload; a call of restartAutoSync makes a timer only when
\* settings.autoSync is set
C27_OneTimer ==
    /\ [](Cardinality(timers) <= 1)
    /\ [](lastCall \in {"stopAutoSync", "onunload"} => timers = {})
    /\ [][(lastCall' = "restartAutoSync" /\ timerIds' # timerIds) => autoSync]_vars

\* restartAutoSync has replaced the timer of an earlier start
C27_Witness ==
    /\ lastCall = "restartAutoSync"
    /\ timerIds >= 3
    /\ autoSync
    /\ timers = {timerIds}

------------------------------------------------------------------------------
(* Overlapping invocations of runSync: the timer callback and the commands
   call runSync without waiting for a running one, and every await is a point
   where the other invocation can run *)

MaxRaceDocs == 2    \* documents that discoverDocuments finds

Runs == {1, 2}

\* this.settings.syncFolder, the folder of document d and its page file
SyncFolder == <<"ReMarkSync">>
DocFolder(d) == <<"ReMarkSync", d>>
PageFile(d) == <<"ReMarkSync", d, "Page 01.excalidraw">>

NewRun == [pc |-> "idle", stage |-> "none", target |-> <<>>, k |-> 0, d |-> 0,
           errors |-> 0, passed |-> {}]

InitRace ==
    /\ ParserIdle
    /\ VaruintIdle
    /\ ConverterIdle
    /\ BatchIdle
    /\ SyncIdle
    /\ TimerIdle
    /\ PathIdle
    /\ vault \in {{}, {SyncFolder}}
    /\ runs = [r \in Runs |-> NewRun]
    /\ syncedDocs = {}
    /\ docCount \in 1..MaxRaceDocs

\* the run goes on with document d, or returns after the last one
NextDocument(run, d) ==
    IF d > docCount
    THEN [run EXCEPT !.pc = "done", !.stage = "none", !.target = <<>>, !.k = 0, !.d = 0]
    ELSE [run EXCEPT !.pc = "ensure", !.stage = "parent", !.target = SyncFolder,
                     !.k = 0, !.d = d]

\* what follows a call of ensureFolderExists that returned: in runSync the
\* document loop, in syncDocument the folder of the document and then the
\* test of the sidecar
AfterEnsure(run) ==
    IF run.stage = "root" THEN NextDocument(run, 1)
    ELSE IF run.stage = "parent"
         THEN [run EXCEPT !.pc = "ensure", !.stage = "folder", !.target = DocFolder(run.d),
                          !.k = 0]
    ELSE IF run.d \in syncedDocs THEN NextDocument(run, run.d + 1)
    ELSE [run EXCEPT !.pc = "pageExists", !.stage = "page", !.target = PageFile(run.d)]

\* what follows a throw: the catch of runSync ends the run, the catch around
\* syncDocument goes on with the next document; both push to result.errors
AfterThrow(run) ==
    IF run.stage = "root"
    THEN [run EXCEPT !.pc = "done", !.stage = "none", !.target = <<>>, !.k = 0,
                     !.errors = run.errors + 1]
    ELSE NextDocument([run EXCEPT !.errors = run.errors + 1], run.d + 1)

\* the next part of the path in the loop of ensureFolderExists
NextPart(run) ==
    IF run.k = Len(run.target) THEN AfterEnsure(run)
    ELSE [run EXCEPT !.pc = "part", !.k = run.k + 1]

\* runSync up to its first await: the documents are discovered and
\* ensureFolderExists(syncFolder) is called
RunSync(r) ==
    /\ runs[r].pc = "idle"
    /\ runs' = [runs EXCEPT ![r] = [NewRun EXCEPT !.pc = "ensure", !.stage = "root",
                                                  !.target = SyncFolder]]
    /\ UNCHANGED <<vault, syncedDocs, docCount, outsideRace>>

\* ensureFolderExists: await exists(normalizedPath)
EnsureExists(r) ==
    /\ runs[r].pc = "ensure"
    /\ runs' = [runs EXCEPT ![r] =
                 IF runs[r].target \in vault THEN AfterEnsure(runs[r])
                 ELSE [runs[r] EXCEPT !.pc = "part", !.k = 1]]
    /\ UNCHANGED <<vault, syncedDocs, docCount, outsideRace>>

\* ensureFolderExists: await exists(currentPath) in the loop over the parts
PartExists(r) ==
    /\ runs[r].pc = "part"
    /\ runs' = [runs EXCEPT ![r] =
                 IF SubSeq(runs[r].target, 1, runs[r].k) \in vault THEN NextPart(runs[r])
                 ELSE [runs[r] EXCEPT !.pc = "create"]]
    /\ UNCHANGED <<vault, syncedDocs, docCount, outsideRace>>

\* ensureFolderExists: await createFolder(currentPath), which throws for a
\* path that exists
CreateFolder(r) ==
    /\ runs[r].pc = "create"
    /\ LET path == SubSeq(runs[r].target, 1, runs[r].k)
       IN  IF path \in vault
           THEN /\ runs' = [runs EXCEPT ![r] = AfterThrow(runs[r])]
                /\ UNCHANGED vault
           ELSE /\ vault' = vault \cup {path}
                /\ runs' = [runs EXCEPT ![r] = NextPart(runs[r])]
    /\ UNCHANGED <<syncedDocs, docCount, outsideRace>>

\* the page loop of syncDocument: await adapter.exists(filePath)
PageExists(r) ==
    /\ runs[r].pc = "pageExists"
    /\ runs' = [runs EXCEPT ![r].pc =
                 IF runs[r].target \in vault THEN "pageWrite" ELSE "pageCreate"]
    /\ UNCHANGED <<vault, syncedDocs, docCount, outsideRace>>

\* await adapter.write(filePath, content)
PageWrite(r) ==
    /\ runs[r].pc = "pageWrite"
    /\ vault' = vault \cup {runs[r].target}
    /\ runs' = [runs EXCEPT ![r].pc = "meta"]
    /\ UNCHANGED <<syncedDocs, docCount, outsideRace>>

\* await vault.create(filePath, content), which throws for a file that
\* exists; the empty catch of the page loop passes the page over
PageCreate(r) ==
    /\ runs[r].pc = "pageCreate"
    /\ IF runs[r].target \in vault
       THEN /\ runs' = [runs EXCEPT ![r].pc = "meta",
                                    ![r].passed = runs[r].passed \cup {runs[r].d}]
            /\ UNCHANGED vault
       ELSE /\ vault' = vault \cup {runs[r].target}
            /\ runs' = [runs EXCEPT ![r].pc = "meta"]
    /\ UNCHANGED <<syncedDocs, docCount, outsideRace>>

\* the sidecar is written and syncDocument returns
RaceWriteMeta(r) ==
    /\ runs[r].pc = "meta"
    /\ syncedDocs' = syncedDocs \cup {runs[r].d}
    /\ runs' = [runs EXCEPT ![r] = NextDocument(runs[r], runs[r].d + 1)]
    /\ UNCHANGED <<vault, docCount, outsideRace>>

NextRace ==
    \E r \in Runs :
        \/ RunSync(r)
        \/ EnsureExists(r)
        \/ PartExists(r)
        \/ CreateFolder(r)
        \/ PageExists(r)
        \/ PageWrite(r)
        \/ PageCreate(r)
        \/ RaceWriteMeta(r)

SpecRace == InitRace /\ [][NextRace]_vars

\* C29: two invocations of runSync that overlap push nothing to result.errors
\* and pass over no page
C29_OverlapRaceFree ==
    \A r \in DOMAIN runs : runs[r].errors = 0 /\ runs[r].passed = {}

------------------------------------------------------------------------------
(* buildFolderPath: the walk up the parent folders of a document *)

MaxFolders == 2     \* folder ids on the device

\* the rounds of the loop of buildFolderPath that the model follows
PathCeiling == MaxFolders + 2

\* a folder id is a number from 1; 0 stands for the empty parent of a
\* top-level entry, MaxFolders + 1 for an id without a metadata file ("trash")
Folders == 1..MaxFolders
ParentIds == 0..(MaxFolders + 1)

\* <id>.metadata: absent, not parsable, or { visibleName, parent }
MetadataKinds ==
    {[kind |-> "absent"], [kind |-> "corrupt"]}
    \cup {[kind |-> "folder", parent |-> p] : p \in ParentIds}

InitPath ==
    /\ ParserIdle
    /\ VaruintIdle
    /\ ConverterIdle
    /\ BatchIdle
    /\ SyncIdle
    /\ TimerIdle
    /\ RaceIdle
    /\ pathPc = "idle"
    /\ metadataFiles \in [Folders -> MetadataKinds]
    /\ currentParent = 0
    /\ parts = <<>>
    /\ folderPath = <<>>

\* fs.existsSync(parentMetaPath)
MetadataExists(id) == id \in DOMAIN metadataFiles /\ metadataFiles[id].kind # "absent"

\* buildFolderPath up to the loop: without a device path it returns the sync
\* folder
buildFolderPath(parent, remarkablePath) ==
    /\ pathPc = "idle"
    /\ parts' = <<>>
    /\ IF remarkablePath
       THEN /\ currentParent' = parent
            /\ pathPc' = "walk"
            /\ UNCHANGED folderPath
       ELSE /\ folderPath' = SyncFolder
            /\ pathPc' = "returned"
            /\ UNCHANGED currentParent
    /\ UNCHANGED <<metadataFiles, outsidePath>>

\* one round of the loop: the name of the parent goes to the front of parts
\* and the walk goes on with the parent's parent
WalkParent ==
    /\ pathPc = "walk"
    /\ currentParent # 0
    /\ MetadataExists(currentParent)
    /\ metadataFiles[currentParent].kind = "folder"
    /\ Len(parts) < PathCeiling
    /\ parts' = <<currentParent>> \o parts
    /\ currentParent' = metadataFiles[currentParent].parent
    /\ UNCHANGED <<pathPc, metadataFiles, folderPath, outsidePath>>

\* the end of the loop (empty parent, no metadata file, or JSON.parse throws):
\* the sync folder goes to the front and the parts are joined
ReturnPath ==
    /\ pathPc = "walk"
    /\ \/ currentParent = 0
       \/ ~MetadataExists(currentParent)
       \/ MetadataExists(currentParent) /\ metadataFiles[currentParent].kind = "corrupt"
    /\ folderPath' = SyncFolder \o parts
    /\ pathPc' = "returned"
    /\ UNCHANGED <<metadataFiles, currentParent, parts, outsidePath>>

NextPath ==
    \/ \E parent \in ParentIds, remarkablePath \in BOOLEAN :
          buildFolderPath(parent, remarkablePath)
    \/ WalkParent
    \/ ReturnPath

SpecPath == InitPath /\ [][NextPath]_vars

\* C30: buildFolderPath ends for every set of metadata files (the loop makes
\* no more rounds than there are folders) and returns a path that begins with
\* the sync folder
C30_PathTerminates ==
    /\ Len(parts) <= MaxFolders
    /\ pathPc = "returned" => (folderPath # <<>> /\ Head(folderPath) = Head(SyncFolder))

====
